---------------------------- MODULE Spec2Model ----------------------------
(***************************************************************************)
(* State-machine model of the voice bridge of fu7uro/agent-voice-calls:    *)
(* the connection registry (services/websocket.ts), the 11Labs adapter     *)
(* (services/elevenlabs.ts), the Twilio <-> 11Labs streaming bridge        *)
(* (services/streaming.ts) and the audio helpers (utils/audio.ts).         *)
(*                                                                         *)
(* One bridge = one call of handleTwilioMediaStream = one telephony        *)
(* socket with its closure variables callSid, streamSid, elevenLabsWs and  *)
(* pingInterval.  Every listener is one action.  The 'start' listener is   *)
(* async and is split at its await into TwilioStart and StartResume.       *)
(***************************************************************************)
EXTENDS Integers, Sequences, FiniteSets, TLC

NULL == "null"

\* ------------------------------------------------------------------ bounds
\* audio_input and ping messages on all AI sockets together, and
\* conversation_end messages on all of them together (events that would
\* send more are not offered).
MaxSent == 1
MaxEnds == 1
\* Transcript entries per Session.
MaxTranscript == 2

\* ------------------------------------------------------- program constants
MaxDurationMs == 300000
GraceMs == 60000
\* The instants Date.now() takes: at the third a Session created at 0 is
\* past the reaper's threshold and one created at 1 is exactly at it.
Instants == {0, 1, MaxDurationMs + GraceMs + 1}

Bridges == {"b1", "b2"}
CallSids == {"CA1", "CA2"}
\* What message.start.callSid evaluates to when the start object has no
\* callSid: undefined, which a Map takes as a key like any other value.
Undefined == "undefined"
\* The keys the registry may hold.
Keys == CallSids \cup {Undefined}
\* if (callSid): the empty string and undefined are falsy.
Truthy(cSid) == cSid \notin {"", Undefined}
StreamSids == {"SS1", "SS2"}
ApiKeys == {"real", "dummy_", "missing"}
\* The handles of the AI sockets one run may create (new WebSocket).
AiHandles == {1, 2}
\* The timers: 'start' creates one with each AI socket it is given.
TimerHandles == AiHandles

\* conversationContext is the query parameter of the upgrade request of
\* each telephony socket.
Context(b) == IF b = "b1" THEN "ctx1" ELSE "ctx2"

\* ------------------------------------------------------------------- audio
Pow2(n) == IF n = 0 THEN 1 ELSE IF n = 1 THEN 2 ELSE IF n = 2 THEN 4
           ELSE IF n = 3 THEN 8 ELSE IF n = 4 THEN 16 ELSE IF n = 5 THEN 32
           ELSE IF n = 6 THEN 64 ELSE 128

\* A table whose entries keep the bias 0x84.
MulawToLinearEntryBiased(i) ==
    LET mulaw == 255 - i
        t0    == (mulaw % 16) * 8 + 132
        t     == t0 * Pow2((mulaw % 128) \div 16)
    IN  IF mulaw >= 128 THEN -t ELSE t

\* MULAW_TO_LINEAR[i] as initMuLawTable fills it.
MulawToLinearEntry(i) ==
    LET mulaw == 255 - i                       \* i ^ 0xff
        t0    == (mulaw % 16) * 8 + 132        \* ((mulaw & 0x0f) << 3) + 0x84
        t     == t0 * Pow2((mulaw % 128) \div 16)  \* t <<= (mulaw & 0x70) >> 4
    IN  IF mulaw >= 128 THEN 132 - t ELSE t - 132

MULAW_TO_LINEAR == [i \in 0..255 |-> MulawToLinearEntry(i)]

\* The segment search of linearToMulaw: scan from mask 0x4000 downwards.
RECURSIVE FindPosition(_, _, _)
FindPosition(magnitude, position, mask) ==
    IF (magnitude \div mask) % 2 = 0 /\ position < 7
    THEN FindPosition(magnitude, position + 1, mask \div 2)
    ELSE position

linearToMulaw(sample) ==
    LET sign      == IF sample < 0 THEN 128 ELSE 0
        abs       == IF sample < 0 THEN -sample ELSE sample
        clipped   == IF abs < 32635 THEN abs ELSE 32635
        magnitude == clipped + 132
        position  == IF magnitude >= 256
                     THEN FindPosition(magnitude, 0, 16384) ELSE 0
        lsb       == (magnitude \div (8 * Pow2(position))) % 16
    IN  255 - (sign + position * 16 + lsb)

\* A base64 text is modelled by the bytes it decodes to, or as not decodable.
Base64(bytes) == [ok |-> TRUE, bytes |-> bytes]
BadBase64 == [ok |-> FALSE, bytes |-> <<>>]

\* base64ToUint8Array: atob throws on a text that is not base64.
base64Throws(text) == ~text.ok
base64ToUint8Array(text) == text.bytes
uint8ArrayToBase64(bytes) == Base64(bytes)

\* new Uint8Array(int16Array.buffer): two bytes per sample, little-endian.
Int16ToBytes(samples) ==
    [k \in 1..(2 * Len(samples)) |->
        LET u == samples[(k + 1) \div 2] % 65536
        IN  IF k % 2 = 1 THEN u % 256 ELSE u \div 256]

\* A typed-array view that drops a trailing odd byte instead of throwing.
bytesToInt16Truncates(bytes) == FALSE

\* new Int16Array(uint8Array.buffer): throws a RangeError on an odd length.
bytesToInt16Throws(bytes) == Len(bytes) % 2 = 1
BytesToInt16(bytes) ==
    [k \in 1..(Len(bytes) \div 2) |->
        LET u == bytes[2 * k - 1] + 256 * bytes[2 * k]
        IN  IF u >= 32768 THEN u - 65536 ELSE u]

mulawToPcm16(mulawData) ==
    LET mulawBytes  == base64ToUint8Array(mulawData)
        pcm16Buffer == [k \in 1..Len(mulawBytes) |-> MULAW_TO_LINEAR[mulawBytes[k]]]
    IN  uint8ArrayToBase64(Int16ToBytes(pcm16Buffer))

pcm16ToMulawThrows(pcm16Data) ==
    base64Throws(pcm16Data) \/ bytesToInt16Throws(base64ToUint8Array(pcm16Data))

pcm16ToMulaw(pcm16Data) ==
    LET pcm16Buffer == BytesToInt16(base64ToUint8Array(pcm16Data))
        mulawBytes  == [k \in 1..Len(pcm16Buffer) |-> linearToMulaw(pcm16Buffer[k])]
    IN  uint8ArrayToBase64(mulawBytes)

RECURSIVE SumSquares(_)
SumSquares(samples) ==
    IF Len(samples) = 0 THEN 0
    ELSE IF Len(samples) = 1 THEN samples[1] * samples[1]
    ELSE LET half == Len(samples) \div 2
         IN  SumSquares(SubSeq(samples, 1, half))
               + SumSquares(SubSeq(samples, half + 1, Len(samples)))

\* calculateRMS returns sqrt(sum((x/32768)^2) / n).  The value is kept as the
\* pair (sum of x^2, n); for n = 0 JavaScript computes sqrt(0/0) = NaN.
calculateRMS(audioData) ==
    IF Len(audioData) = 0 THEN [nan |-> TRUE, sumSq |-> 0, n |-> 0]
    ELSE [nan |-> FALSE, sumSq |-> SumSquares(audioData), n |-> Len(audioData)]

\* rms > 0.01  <=>  sumSq > n * 32768^2 / 10000 = n * 107374.1824;
\* every comparison with NaN is false.
RmsGreater(rms) ==
    ~rms.nan /\ rms.sumSq > rms.n * 107374 + (rms.n * 1824) \div 10000

detectVoiceActivity(audioData) == RmsGreater(calculateRMS(audioData))

\* rms > threshold for the threshold 2^-k:  sumSq / n > 2^(30 - 2k), the
\* quotient compared by its integer part and its remainder.
RmsAbove(rms, k) ==
    IF rms.nan THEN FALSE
    ELSE \/ rms.sumSq \div rms.n > 2^(30 - 2 * k)
         \/ rms.sumSq \div rms.n = 2^(30 - 2 * k) /\ rms.sumSq % rms.n > 0

\* detectVoiceActivity(audioData, threshold) with the threshold 2^-k given.
detectVoiceActivityAt(audioData, k) == RmsAbove(calculateRMS(audioData), k)


\* ------------------------------------------------------------- resampling
\* JavaScript numbers are IEEE 754 doubles.  resampleAudio divides twice
\* (fromRate / toRate, then length / ratio); each quotient is the exact one
\* rounded to 53 significant bits, ties to even.  A 54-bit integer is kept as
\* the pair <<hi, lo>> of its digits in base 2^27.
Base27 == 2^27

BigOf(n) == <<n \div Base27, n % Base27>>
BigTwice(x, bit) ==
    LET lo == 2 * x[2] + bit IN <<2 * x[1] + lo \div Base27, lo % Base27>>
BigGeq(x, y) == IF x[1] = y[1] THEN x[2] >= y[2] ELSE x[1] > y[1]
BigMinus(x, y) ==
    IF x[2] >= y[2] THEN <<x[1] - y[1], x[2] - y[2]>>
    ELSE <<x[1] - y[1] - 1, x[2] + Base27 - y[2]>>
BigSucc(x) == IF x[2] + 1 = Base27 THEN <<x[1] + 1, 0>> ELSE <<x[1], x[2] + 1>>

\* x * 2^s and floor(x / 2^s), for s in 0 .. 54.
BigShiftLeft(x, s) ==
    LET y == IF s >= 27 THEN <<x[2], 0>> ELSE x
        k == IF s >= 27 THEN s - 27 ELSE s
    IN  <<y[1] * 2^k + y[2] \div 2^(27 - k), (y[2] % 2^(27 - k)) * 2^k>>
BigShiftRight(x, s) ==
    LET y == IF s >= 27 THEN <<0, x[1]>> ELSE x
        k == IF s >= 27 THEN s - 27 ELSE s
    IN  IF s >= 54 THEN <<0, 0>>
        ELSE <<y[1] \div 2^k, (y[1] % 2^k) * 2^(27 - k) + y[2] \div 2^k>>

\* The number of bits of x > 0.
BitLength(x) ==
    LET digit == IF x[1] > 0 THEN x[1] ELSE x[2]
        bits  == CHOOSE k \in 1..27 : 2^(k - 1) <= digit /\ digit < 2^k
    IN  IF x[1] > 0 THEN 27 + bits ELSE bits

\* The element of a singleton: a value computed once, before it is used.
Only(S) == CHOOSE v \in S : TRUE

\* The exponent s and the scaled operands with den <= num < 2 * den and
\* num / den * 2^s the quotient asked for.
Normalise(num, den) ==
    LET d  == BitLength(num) - BitLength(den)
        n1 == IF d < 0 THEN BigShiftLeft(num, -d) ELSE num
        d1 == IF d > 0 THEN BigShiftLeft(den, d) ELSE den
    IN  IF BigGeq(n1, d1) THEN [num |-> n1, den |-> d1, s |-> d]
        ELSE [num |-> BigTwice(n1, 0), den |-> d1, s |-> d - 1]

\* One step of the long division by den: the next bit of the quotient m
\* and the remainder r.
QuotientBit(q, den) ==
    LET r2  == BigTwice(q.r, 0)
        bit == IF BigGeq(r2, den) THEN 1 ELSE 0
    IN  [m |-> BigTwice(q.m, bit),
         r |-> IF bit = 1 THEN BigMinus(r2, den) ELSE r2]

\* k steps of the long division, the first half of them before the second.
RECURSIVE QuotientBits(_, _, _)
QuotientBits(q, den, k) ==
    IF k = 0 THEN q
    ELSE IF k = 1 THEN QuotientBit(q, den)
    ELSE Only({QuotientBits(half, den, k - k \div 2) :
                   half \in {QuotientBits(q, den, k \div 2)}})

\* The quotient q of the long division rounded to 53 bits, ties to even: the
\* double m * 2^e with m in 2^52 .. 2^53 - 1.
RoundToEven(q, den, s) ==
    LET r2    == BigTwice(q.r, 0)
        guard == BigGeq(r2, den)
        rest  == IF guard THEN BigMinus(r2, den) ELSE r2
        up    == guard /\ (rest # <<0, 0>> \/ q.m[2] % 2 = 1)
        m     == IF up THEN BigSucc(q.m) ELSE q.m
    IN  IF m = <<Base27, 0>>
        THEN [m |-> <<Base27 \div 2, 0>>, e |-> s - 51]
        ELSE [m |-> m, e |-> s - 52]

\* num / den on doubles, for positive integers below 2^53.
Float64Div(num, den) ==
    Only({RoundToEven(QuotientBits([m |-> <<0, 1>>, r |-> BigMinus(n.num, n.den)],
                                   n.den, 52), n.den, n.s) :
              n \in {Normalise(num, den)}})

\* Math.floor of the double m * 2^e, for values below 2^27.
Float64Floor(m, e) ==
    LET floor == IF e >= 0 THEN BigShiftLeft(m, e) ELSE BigShiftRight(m, -e)
    IN  floor[1] * Base27 + floor[2]

\* Math.floor(length / ratio) for the double ratio.
FloorOfQuotient(length, ratio) ==
    Only({Float64Floor(q.m, q.e - ratio.e) : q \in {Float64Div(BigOf(length), ratio.m)}})

\* const ratio = fromRate / toRate
\* const outputLength = Math.floor(audioData.length / ratio)
outputLength(length, fromRate, toRate) ==
    IF length = 0 THEN 0
    ELSE Only({FloorOfQuotient(length, ratio) :
                   ratio \in {Float64Div(BigOf(fromRate), BigOf(toRate))}})

\* A variant with the ratio toRate / fromRate.
resampleAudioInverted(audioData, fromRate, toRate) ==
    IF fromRate = toRate
    THEN [same |-> TRUE, length |-> Len(audioData)]
    ELSE [same |-> FALSE, length |-> outputLength(Len(audioData), toRate, fromRate)]

\* A variant without the test for equal rates.
resampleAudioAlwaysCopies(audioData, fromRate, toRate) ==
    [same |-> FALSE, length |-> outputLength(Len(audioData), fromRate, toRate)]

\* The ratios whose double is exact: fromRate / toRate = n / 2^k with k among
\* Shifts.  With such a ratio every double of the loop (srcIndex, t, 1 - t,
\* the two products and their sum) is exact.  RatioShift is the least such k,
\* -1 where there is none.
Shifts == 0..4

RatioShift(fromRate, toRate) ==
    LET ks == {k \in Shifts : (fromRate * 2^k) % toRate = 0}
    IN  IF ks = {} THEN -1 ELSE CHOOSE k \in ks : \A j \in ks : k <= j

\* A variant that does not clamp the upper neighbour to the buffer end.
srcIndexCeilUnclamped(srcIndexFloor, length) == srcIndexFloor + 1

\* Math.min(srcIndexFloor + 1, audioData.length - 1).
srcIndexCeil(srcIndexFloor, length) ==
    IF srcIndexFloor + 1 < length - 1 THEN srcIndexFloor + 1 ELSE length - 1

\* Math.round of the exact value num / den (den > 0): floor(v + 0.5), halves
\* go up.
MathRound(num, den) == (2 * num + den) \div (2 * den)

\* The store into an Int16Array: modulo 2^16.
ToInt16(v) == ((v + 32768) % 65536) - 32768

\* output[i] for the ratio n / 2^k (i and the indices count from 0, as in the
\* source).  A read past the end of a typed array gives undefined, the sum is
\* then NaN and the Int16Array stores 0.
outputSample(audioData, i, n, k) ==
    LET den == 2^k
        srcIndexFloor == (i * n) \div den
        ceil == srcIndexCeil(srcIndexFloor, Len(audioData))
        t == (i * n) % den
    IN  IF srcIndexFloor >= Len(audioData) \/ ceil >= Len(audioData) THEN 0
        ELSE ToInt16(MathRound(audioData[srcIndexFloor + 1] * (den - t)
                                   + audioData[ceil + 1] * t, den))

\* resampleAudio: whether the Int16Array it returns is audioData itself, its
\* length, and its samples where the ratio is exact (exact tells whether).
resampleAudio(audioData, fromRate, toRate) ==
    IF fromRate = toRate
    THEN [same |-> TRUE, length |-> Len(audioData), exact |-> TRUE,
          samples |-> audioData]
    ELSE LET length == outputLength(Len(audioData), fromRate, toRate)
             k      == RatioShift(fromRate, toRate)
         IN  [same    |-> FALSE,
              length  |-> length,
              exact   |-> k >= 0,
              samples |-> IF k >= 0
                          THEN [i \in 1..length |->
                                   outputSample(audioData, i - 1,
                                                (fromRate * 2^k) \div toRate, k)]
                          ELSE <<>>]

\* ---------------------------------------------------------------- state
VARIABLES
    apiKey,             \* env.ELEVENLABS_API_KEY: real, dummy_... or missing
    now,                \* Date.now()
    activeConnections,  \* the registry: callSid -> WebSocketConnectionState
    twilioWs,           \* per bridge: status of the telephony socket
    callSid,            \* per bridge: closure variable callSid
    streamSid,          \* per bridge: closure variable streamSid
    elevenLabsWs,       \* per bridge: closure variable elevenLabsWs (0: null)
    pingInterval,       \* per bridge: closure variable pingInterval (0: null)
    pc,                 \* per bridge: "idle", or "await" inside 'start'
    pending,            \* per bridge: what the awaited promise settles to
    aiWs,               \* the AI sockets created so far, by handle 1..Len
    intervals,          \* the setInterval timers created so far
    evicted,            \* history: the callSids whose Session the reaper removed
    born,               \* history: per callSid, when it was last created, or -1
                        \* once that was followed by a close or an eviction
    last                \* history: the listener that ran last and what it did

vars == <<apiKey, now, activeConnections, twilioWs, callSid, streamSid,
          elevenLabsWs, pingInterval, pc, pending, aiWs, intervals, evicted, born,
          last>>

\* A socket that failed has readyState CLOSED and its 'close' event is
\* still to be dispatched.
ReadyState(status) == IF status = "FAILED" THEN "CLOSED" ELSE status

\* ------------------------------------------------------------- registry
\* A variant that keeps the entry it finds.
createConnectionStateKeep(conns, cSid, sSid, t) ==
    LET state == [callSid             |-> cSid,
                  streamSid           |-> sSid,
                  conversationStarted |-> FALSE,
                  transcript          |-> <<>>,
                  twilioWs            |-> NULL,
                  elevenLabsWs        |-> 0,
                  conversationContext |-> "",
                  startTime           |-> t]
    IN  [c \in (DOMAIN conns) \cup {cSid} |->
            IF c \in DOMAIN conns THEN conns[c] ELSE state]

createConnectionState(conns, cSid, sSid, t) ==
    LET state == [callSid             |-> cSid,
                  streamSid           |-> sSid,
                  conversationStarted |-> FALSE,
                  transcript          |-> <<>>,
                  twilioWs            |-> NULL,
                  elevenLabsWs        |-> 0,
                  conversationContext |-> "",
                  startTime           |-> t]
    IN  [c \in (DOMAIN conns) \cup {cSid} |-> IF c = cSid THEN state ELSE conns[c]]

getConnectionState(conns, cSid) ==
    IF cSid \in DOMAIN conns THEN conns[cSid] ELSE NULL

\* A variant that creates the entry it does not find.
updateConnectionStateUpsert(conns, cSid, updates) ==
    LET base == IF cSid \in DOMAIN conns THEN conns
                ELSE createConnectionState(conns, cSid, "", 0)
    IN  [base EXCEPT ![cSid] =
            [f \in DOMAIN base[cSid] |->
                IF f \in DOMAIN updates THEN updates[f] ELSE base[cSid][f]]]

\* Object.assign(state, updates) on the entry, when there is one.
updateConnectionState(conns, cSid, updates) ==
    IF cSid \in DOMAIN conns
    THEN [conns EXCEPT ![cSid] =
            [f \in DOMAIN conns[cSid] |->
                IF f \in DOMAIN updates THEN updates[f] ELSE conns[cSid][f]]]
    ELSE conns

\* A variant that creates the entry it does not find.
addTranscriptEntryUpsert(conns, cSid, speaker, text, isFinal, t) ==
    LET base  == IF cSid \in DOMAIN conns THEN conns
                 ELSE createConnectionState(conns, cSid, "", t)
        entry == [timestamp |-> t, speaker |-> speaker,
                  text |-> text, is_final |-> isFinal]
    IN  [base EXCEPT ![cSid].transcript = Append(@, entry)]

\* A variant that stores every entry as final.
addTranscriptEntryAllFinal(conns, cSid, speaker, text, isFinal, t) ==
    IF cSid \in DOMAIN conns
    THEN LET entry == [timestamp |-> t, speaker |-> speaker,
                       text |-> text, is_final |-> TRUE]
         IN  [conns EXCEPT ![cSid].transcript = Append(@, entry)]
    ELSE conns

\* A variant that puts the new entry first.
addTranscriptEntryFirst(conns, cSid, speaker, text, isFinal, t) ==
    IF cSid \in DOMAIN conns
    THEN LET entry == [timestamp |-> t, speaker |-> speaker,
                       text |-> text, is_final |-> isFinal]
         IN  [conns EXCEPT ![cSid].transcript = <<entry>> \o @]
    ELSE conns

addTranscriptEntry(conns, cSid, speaker, text, isFinal, t) ==
    IF cSid \in DOMAIN conns
    THEN LET entry == [timestamp |-> t, speaker |-> speaker,
                       text |-> text, is_final |-> isFinal]
         IN  [conns EXCEPT ![cSid].transcript = Append(@, entry)]
    ELSE conns

\* A variant that counts every entry, final or not.
getConversationMetadataAllEntries(conns, cSid) ==
    LET state == conns[cSid]
    IN  [callSid         |-> state.callSid,
         startTime       |-> state.startTime,
         endTime         |-> NULL,
         totalDuration   |-> NULL,
         utteranceCount  |-> Len(state.transcript),
         agentUtterances |-> Len(SelectSeq(state.transcript, LAMBDA e : e.speaker = "agent")),
         userUtterances  |-> Len(SelectSeq(state.transcript, LAMBDA e : e.speaker = "user")),
         interruptions   |-> 0]

getConversationMetadata(conns, cSid) ==
    LET state           == conns[cSid]
        finalTranscript == SelectSeq(state.transcript, LAMBDA e : e.is_final)
    IN  [callSid         |-> state.callSid,
         startTime       |-> state.startTime,
         endTime         |-> NULL,
         totalDuration   |-> NULL,
         utteranceCount  |-> Len(finalTranscript),
         agentUtterances |-> Len(SelectSeq(finalTranscript, LAMBDA e : e.speaker = "agent")),
         userUtterances  |-> Len(SelectSeq(finalTranscript, LAMBDA e : e.speaker = "user")),
         interruptions   |-> 0]

\* A variant of closeConnection that empties the registry.
closeConnectionClear(conns, tw, ai, cSid, t, fault) ==
    IF cSid \notin DOMAIN conns
    THEN [conns |-> conns, tw |-> tw, ai |-> ai, metadata |-> <<>>, raised |-> "none"]
    ELSE [conns    |-> <<>>,
          tw       |-> tw,
          ai       |-> ai,
          raised   |-> "none",
          metadata |-> <<[getConversationMetadata(conns, cSid) EXCEPT
                             !.endTime = t,
                             !.totalDuration = t - conns[cSid].startTime]>>]

\* A variant of closeConnection that returns the metadata and keeps the entry.
closeConnectionKeep(conns, tw, ai, cSid, t, fault) ==
    IF cSid \notin DOMAIN conns
    THEN [conns |-> conns, tw |-> tw, ai |-> ai, metadata |-> <<>>, raised |-> "none"]
    ELSE [conns    |-> conns,
          tw       |-> tw,
          ai       |-> ai,
          raised   |-> "none",
          metadata |-> <<[getConversationMetadata(conns, cSid) EXCEPT
                             !.endTime = t,
                             !.totalDuration = t - conns[cSid].startTime]>>]

\* Which close() call of closeConnection raises, if any.
CloseFaults == {"none", "twilio", "ai"}

\* closeConnection on registry conns, telephony sockets tw and AI sockets ai.
\* The result: the three after the call, what it returned (no metadata when
\* there is no entry) and which close() raised into its catch.  The two
\* close() calls share one try block: when the first raises the second is
\* not reached.  A close() that raises leaves its socket as it was.
closeConnection(conns, tw, ai, cSid, t, fault) ==
    IF cSid \notin DOMAIN conns
    THEN [conns |-> conns, tw |-> tw, ai |-> ai, metadata |-> <<>>, raised |-> "none"]
    ELSE
      LET state    == conns[cSid]
          metadata == [getConversationMetadata(conns, cSid) EXCEPT
                          !.endTime = t, !.totalDuration = t - state.startTime]
          twOpen   == state.twilioWs # NULL /\ ReadyState(tw[state.twilioWs]) = "OPEN"
          twRaised == twOpen /\ fault = "twilio"
          aiOpen   == IF state.elevenLabsWs # 0
                      THEN ReadyState(ai[state.elevenLabsWs].status) = "OPEN"
                      ELSE FALSE
          aiRaised == ~twRaised /\ aiOpen /\ fault = "ai"
          tw2 == IF twOpen /\ ~twRaised
                 THEN [tw EXCEPT ![state.twilioWs] = "CLOSING"] ELSE tw
          ai2 == IF aiOpen /\ ~twRaised /\ ~aiRaised
                 THEN [ai EXCEPT ![state.elevenLabsWs].status = "CLOSING"] ELSE ai
      IN  [conns    |-> [c \in (DOMAIN conns) \ {cSid} |-> conns[c]],
           tw       |-> tw2,
           ai       |-> ai2,
           metadata |-> <<metadata>>,
           raised   |-> IF twRaised THEN "twilio" ELSE IF aiRaised THEN "ai" ELSE "none"]

getActiveConnectionCount(conns) == Cardinality(DOMAIN conns)

\* A variant of the age test with the two instants exchanged.
IsStaleBackwards(state, t) == state.startTime - t > MaxDurationMs + GraceMs

\* A variant of the age test that takes the threshold itself as stale.
IsStaleAtThreshold(state, t) == t - state.startTime >= MaxDurationMs + GraceMs

\* The entries cleanupStaleConnections closes at time t.
IsStale(state, t) == t - state.startTime > MaxDurationMs + GraceMs

RECURSIVE CloseAll(_, _, _, _, _)
CloseAll(conns, tw, ai, keys, t) ==
    IF keys = {} THEN [conns |-> conns, tw |-> tw, ai |-> ai]
    ELSE LET k == CHOOSE x \in keys : TRUE
             r == closeConnection(conns, tw, ai, k, t, "none")
         IN  CloseAll(r.conns, r.tw, r.ai, keys \ {k}, t)

\* A variant that counts the stale entries and closes none.
cleanupStaleConnectionsCountOnly(conns, tw, ai, t) ==
    [conns   |-> conns, tw |-> tw, ai |-> ai,
     cleaned |-> Cardinality({c \in DOMAIN conns : IsStale(conns[c], t)})]

cleanupStaleConnections(conns, tw, ai, t) ==
    LET stale == {c \in DOMAIN conns : IsStale(conns[c], t)}
        r     == CloseAll(conns, tw, ai, stale, t)
    IN  [conns |-> r.conns, tw |-> r.tw, ai |-> r.ai, cleaned |-> Cardinality(stale)]


\* --------------------------------------------------------- 11Labs adapter
\* ws.send(message) on AI socket ws.
AiSend(ai, ws, type) == [ai EXCEPT ![ws].sent = Append(@, type)]

AiReadyState(ai, ws) == ReadyState(ai[ws].status)

isElevenLabsConnected(ai, ws) == ws # 0 /\ AiReadyState(ai, ws) = "OPEN"

\* initializeElevenLabsConversation up to its return: "throw" for the
\* TypeError of apiKey.startsWith on a missing key, "null" for a dummy key
\* or a constructor that throws, "ws" with a new socket in CONNECTING.
initializeElevenLabsConversation(ai, key, ctorOk) ==
    IF key = "missing" THEN [kind |-> "throw", ws |-> 0, ai |-> ai]
    ELSE IF key = "dummy_" THEN [kind |-> "null", ws |-> 0, ai |-> ai]
    ELSE IF ~ctorOk THEN [kind |-> "null", ws |-> 0, ai |-> ai]
    ELSE [kind |-> "ws",
          ws   |-> Len(ai) + 1,
          ai   |-> Append(ai, [status     |-> "CONNECTING",
                               sent       |-> <<>>,
                               bound      |-> FALSE,
                               twilioWs   |-> NULL,
                               callSid    |-> "",
                               closeTimer |-> FALSE])]

\* sendAudioToElevenLabs: [ai after the call, the messages it sent].
sendAudioToElevenLabs(ai, ws, audioPayload, isLastChunk) ==
    IF ws = 0 \/ AiReadyState(ai, ws) # "OPEN"
    THEN [ai |-> ai, sent |-> <<>>]
    ELSE [ai   |-> AiSend(ai, ws, "audio_input"),
          sent |-> <<[ws          |-> ws,
                      type        |-> "audio_input",
                      audio       |-> audioPayload,
                      sample_rate |-> 16000,
                      is_final    |-> isLastChunk]>>]

\* A variant without the readyState test.
closeElevenLabsConnectionUnchecked(ai, ws) ==
    IF ws = 0 THEN [ai |-> ai, sent |-> <<>>, raised |-> FALSE]
    ELSE [ai     |-> [AiSend(ai, ws, "conversation_end") EXCEPT ![ws].closeTimer = TRUE],
          sent   |-> <<[ws |-> ws, type |-> "conversation_end"]>>,
          raised |-> FALSE]

\* closeElevenLabsConnection: send() on a socket still CONNECTING throws,
\* the catch swallows it and no close is scheduled.
closeElevenLabsConnection(ai, ws) ==
    IF ws = 0 THEN [ai |-> ai, sent |-> <<>>, raised |-> FALSE]
    ELSE IF AiReadyState(ai, ws) = "OPEN"
    THEN [ai     |-> [AiSend(ai, ws, "conversation_end") EXCEPT ![ws].closeTimer = TRUE],
          sent   |-> <<[ws |-> ws, type |-> "conversation_end"]>>,
          raised |-> FALSE]
    ELSE IF AiReadyState(ai, ws) = "CONNECTING"
    THEN [ai |-> ai, sent |-> <<>>, raised |-> TRUE]
    ELSE [ai |-> ai, sent |-> <<>>, raised |-> FALSE]

\* A variant without the readyState test.
pingElevenLabsUnchecked(ai, ws) ==
    IF ws = 0
    THEN [ai |-> ai, sent |-> <<>>]
    ELSE [ai |-> AiSend(ai, ws, "ping"), sent |-> <<[ws |-> ws, type |-> "ping"]>>]

pingElevenLabs(ai, ws) ==
    IF ws = 0 \/ AiReadyState(ai, ws) # "OPEN"
    THEN [ai |-> ai, sent |-> <<>>]
    ELSE [ai |-> AiSend(ai, ws, "ping"), sent |-> <<[ws |-> ws, type |-> "ping"]>>]

\* handleElevenLabsMessage.  A frame is modelled by what JSON.parse makes of
\* its text (json: "invalid" when it throws, "null" for the literal null,
\* "object" otherwise) and by the fields of the object.  message.type on
\* null throws a TypeError inside the try, which the catch answers like a
\* parse failure.
KnownAiTypes == {"audio", "transcript", "interruption", "error"}

ParseFailure == [type |-> "error", payload |-> [error |-> "Failed to parse message"]]

\* A variant that takes an interruption for a transcript.
handleElevenLabsMessageAsTranscript(data) ==
    IF data.json = "invalid" THEN ParseFailure
    ELSE IF data.json = "null" THEN ParseFailure
    ELSE IF data.type = "audio"
    THEN [type |-> "audio", payload |-> [audio |-> data.audio, sample_rate |-> 16000]]
    ELSE IF data.type \in {"transcript", "interruption"}
    THEN [type |-> "transcript",
          payload |-> [text |-> data.text, is_final |-> data.is_final,
                       speaker |-> data.speaker]]
    ELSE IF data.type \in KnownAiTypes
    THEN [type |-> data.type, payload |-> <<>>]
    ELSE [type |-> "unknown", payload |-> data]

handleElevenLabsMessage(data) ==
    IF data.json = "invalid" THEN ParseFailure
    ELSE IF data.json = "null" THEN ParseFailure
    ELSE IF data.type = "audio"
    THEN [type |-> "audio", payload |-> [audio |-> data.audio, sample_rate |-> 16000]]
    ELSE IF data.type = "transcript"
    THEN [type    |-> "transcript",
          payload |-> [text |-> data.text, is_final |-> data.is_final,
                       speaker |-> data.speaker]]
    ELSE IF data.type \in KnownAiTypes
    THEN [type |-> data.type, payload |-> <<>>]
    ELSE [type |-> "unknown", payload |-> data]

\* A variant of handleIncomingAudio that forwards whatever it decodes.
handleIncomingAudioUngated(ai, audioPayload, ws) ==
    IF ws = 0 \/ ~isElevenLabsConnected(ai, ws)
    THEN [ai |-> ai, sent |-> <<>>, raised |-> FALSE]
    ELSE IF base64Throws(audioPayload)
    THEN [ai |-> ai, sent |-> <<>>, raised |-> TRUE]
    ELSE LET r == sendAudioToElevenLabs(ai, ws, mulawToPcm16(audioPayload), FALSE)
         IN  [ai |-> r.ai, sent |-> r.sent, raised |-> FALSE]

\* --------------------------------------------------------------- bridge
\* handleIncomingAudio with LOGGING_CONFIG.logAudioChunks = false.
handleIncomingAudio(ai, audioPayload, ws) ==
    IF ws = 0 \/ ~isElevenLabsConnected(ai, ws)
    THEN [ai |-> ai, sent |-> <<>>, raised |-> FALSE]
    ELSE IF base64Throws(audioPayload)
    THEN [ai |-> ai, sent |-> <<>>, raised |-> TRUE]
    ELSE LET pcm16Audio   == mulawToPcm16(audioPayload)
             audioBytes   == base64ToUint8Array(pcm16Audio)
             audioSamples == BytesToInt16(audioBytes)
             hasVoice     == detectVoiceActivity(audioSamples)
             r            == sendAudioToElevenLabs(ai, ws, pcm16Audio, FALSE)
         IN  IF hasVoice
             THEN [ai |-> r.ai, sent |-> r.sent, raised |-> FALSE]
             ELSE [ai |-> ai, sent |-> <<>>, raised |-> FALSE]

\* sendAudioToTwilio: the frames sent on telephony socket b.
sendAudioToTwilio(tw, b, pcm16Audio, cSid) ==
    IF ReadyState(tw[b]) # "OPEN" THEN [sent |-> <<>>, raised |-> FALSE]
    ELSE IF pcm16ToMulawThrows(pcm16Audio) THEN [sent |-> <<>>, raised |-> TRUE]
    ELSE [sent   |-> <<[twilioWs  |-> b,
                        event     |-> "media",
                        streamSid |-> cSid,
                        payload   |-> pcm16ToMulaw(pcm16Audio)]>>,
          raised |-> FALSE]

\* A variant that leaves the timer running.
clearIntervalNoop(ivs, id) == ivs

clearInterval(ivs, id) ==
    IF id # 0 THEN [ivs EXCEPT ![id].active = FALSE] ELSE ivs


\* ------------------------------------------------------------- the inputs
\* media.payload of a telephony 'media' frame, by name.
MediaPayloads == {"silence", "below", "voice", "empty", "bad"}

MediaPayload(name) ==
    IF name = "silence" THEN Base64(<<255, 127>>)       \* 0, 0
    ELSE IF name = "below" THEN Base64(<<227>>)          \* 324: rms 0.00989
    ELSE IF name = "voice" THEN Base64(<<226, 98>>)      \* 340, -340: rms 0.01038
    ELSE IF name = "empty" THEN Base64(<<>>)
    ELSE BadBase64

\* audio of an AI 'audio' message, by name.
AudioPayloads == {"pcm", "odd", "bad"}

AudioPayload(name) ==
    IF name = "pcm" THEN Base64(Int16ToBytes(<<1000, -340>>))
    ELSE IF name = "odd" THEN Base64(<<1, 2, 3>>)
    ELSE BadBase64

\* The frames the AI endpoint sends.
AiFrame(type, audio, speaker, text, isFinal) ==
    [json |-> "object", type |-> type, audio |-> audio, speaker |-> speaker,
     text |-> text, is_final |-> isFinal]

\* Text that is no JSON, and the JSON text null.
InvalidFrame == [AiFrame("", "", "", "", FALSE) EXCEPT !.json = "invalid"]
NullFrame == [AiFrame("", "", "", "", FALSE) EXCEPT !.json = "null"]

NoMessage == [AiFrame("", "", "", "", FALSE) EXCEPT !.json = ""]

\* What `last` records of a listener: which one ran (op), on which bridge or
\* AI socket, for which callSid, on which input, whether an exception was
\* raised inside it, what it sent on the AI sockets and on the telephony
\* sockets, what closeConnection returned, what the sweep returned, the
\* Sessions it removed from the registry, the AI sockets it called
\* close() on, the Sessions a create overwrote and what
\* handleElevenLabsMessage returned.
NoEvent ==
    [op |-> "none", bridge |-> NULL, ws |-> 0, callSid |-> "", payload |-> "",
     message |-> NoMessage, raised |-> FALSE, toAi |-> <<>>, toTwilio |-> <<>>,
     metadata |-> <<>>, cleaned |-> 0, closed |-> {}, aiClosed |-> {},
     replaced |-> {}, response |-> <<>>, closeRaised |-> "none"]

\* The Session createConnectionState(cSid) overwrites in conns.
Replaced(conns, cSid) == IF cSid \in DOMAIN conns THEN {conns[cSid]} ELSE {}

\* The Sessions of conns that are gone in after, and the AI sockets that
\* went from OPEN in ai to CLOSING in after.
Removed(conns, after) == {conns[c] : c \in (DOMAIN conns) \ (DOMAIN after)}
CloseCalled(ai, after) ==
    {ws \in DOMAIN ai : ai[ws].status = "OPEN" /\ after[ws].status = "CLOSING"}

\* The number of messages of the given types in the logs of all AI sockets.
RECURSIVE Count(_, _)
Count(ai, types) ==
    IF ai = <<>> THEN 0
    ELSE Len(SelectSeq(Head(ai).sent, LAMBDA m : m \in types)) + Count(Tail(ai), types)

\* Whether the bounds leave room for one more audio_input or ping, and for
\* the conversation_end that closeElevenLabsConnection sends on an open
\* socket, on AI socket ws.
RoomFor(ai, ws) ==
    IF ws = 0 THEN TRUE ELSE Count(ai, {"audio_input", "ping"}) < MaxSent
RoomForEnd(ai, ws) ==
    IF ws = 0 THEN TRUE
    ELSE IF AiReadyState(ai, ws) # "OPEN" THEN TRUE
    ELSE Count(ai, {"conversation_end"}) < MaxEnds

\* ----------------------------------------------------------------- Init
Init ==
    /\ apiKey \in ApiKeys
    /\ now = 0
    /\ activeConnections = <<>>
    /\ twilioWs = [b \in Bridges |-> "OPEN"]
    /\ callSid = [b \in Bridges |-> ""]
    /\ streamSid = [b \in Bridges |-> ""]
    /\ elevenLabsWs = [b \in Bridges |-> 0]
    /\ pingInterval = [b \in Bridges |-> 0]
    /\ pc = [b \in Bridges |-> "idle"]
    /\ pending = [b \in Bridges |-> [kind |-> "null", ws |-> 0]]
    /\ aiWs = <<>>
    /\ intervals = <<>>
    /\ evicted = {}
    /\ born = [c \in Keys |-> -1]
    /\ last = NoEvent

Receiving(b) == twilioWs[b] \in {"OPEN", "CLOSING"}

\* ------------------------------------------------- telephony 'message'
\* A frame that parseTwilioMessage rejects, a 'connected' event, or a
\* 'start' frame without its start object (message.start.callSid throws
\* before anything is assigned; the listener's catch logs it).
TwilioOther(b, kind) ==
    /\ Receiving(b)
    /\ last' = [NoEvent EXCEPT !.op = kind, !.bridge = b, !.callSid = callSid[b],
                               !.raised = (kind = "startNoFields")]
    /\ UNCHANGED <<apiKey, now, activeConnections, twilioWs, callSid, streamSid,
                   elevenLabsWs, pingInterval, pc, pending, aiWs, intervals, evicted, born>>

\* case 'start', up to the await.
TwilioStart(b, c, s, ctorOk) ==
    /\ Receiving(b)
    /\ pc[b] = "idle"
    /\ IF apiKey = "real" /\ ctorOk THEN Len(aiWs) + 1 \in AiHandles ELSE TRUE
    /\ LET created == createConnectionState(activeConnections, c, s, now)
           state   == [created[c] EXCEPT !.twilioWs = b,
                                         !.conversationContext = Context(b)]
           r       == initializeElevenLabsConversation(aiWs, apiKey, ctorOk)
       IN  /\ callSid' = [callSid EXCEPT ![b] = c]
           /\ streamSid' = [streamSid EXCEPT ![b] = s]
           /\ activeConnections' = [created EXCEPT ![c] = state]
           /\ aiWs' = r.ai
           /\ pending' = [pending EXCEPT ![b] = [kind |-> r.kind, ws |-> r.ws]]
           /\ pc' = [pc EXCEPT ![b] = "await"]
           /\ last' = [NoEvent EXCEPT !.op = "start", !.bridge = b, !.callSid = c,
                                      !.payload = s, !.ws = r.ws,
                                      !.replaced = Replaced(activeConnections, c)]
    /\ evicted' = evicted \ {c}
    /\ born' = [born EXCEPT ![c] = now]
    /\ UNCHANGED <<apiKey, now, twilioWs, elevenLabsWs, pingInterval, intervals>>

\* case 'start', after the await.
StartResume(b) ==
    /\ pc[b] = "await"
    /\ pc' = [pc EXCEPT ![b] = "idle"]
    /\ pending' = [pending EXCEPT ![b] = [kind |-> "null", ws |-> 0]]
    /\ LET ws == pending[b].ws
       IN  IF pending[b].kind = "throw"
           THEN /\ last' = [NoEvent EXCEPT !.op = "resume", !.bridge = b,
                                           !.callSid = callSid[b], !.raised = TRUE]
                /\ UNCHANGED <<activeConnections, elevenLabsWs, pingInterval,
                               aiWs, intervals>>
           ELSE /\ elevenLabsWs' = [elevenLabsWs EXCEPT ![b] = ws]
                /\ last' = [NoEvent EXCEPT !.op = "resume", !.bridge = b,
                                           !.callSid = callSid[b], !.ws = ws]
                /\ IF ws # 0
                   THEN /\ activeConnections' =
                              updateConnectionState(activeConnections, callSid[b],
                                  [elevenLabsWs |-> ws, conversationStarted |-> TRUE])
                        /\ aiWs' = [aiWs EXCEPT ![ws].bound = TRUE,
                                                ![ws].twilioWs = b,
                                                ![ws].callSid = callSid[b]]
                        /\ intervals' = Append(intervals,
                              [owner |-> b, callSid |-> callSid[b], active |-> TRUE])
                        /\ pingInterval' = [pingInterval EXCEPT ![b] = Len(intervals) + 1]
                   ELSE UNCHANGED <<activeConnections, aiWs, intervals, pingInterval>>
    /\ UNCHANGED <<apiKey, now, twilioWs, callSid, streamSid, evicted, born>>

\* case 'media'.
TwilioMedia(b, p) ==
    /\ Receiving(b)
    /\ RoomFor(aiWs, elevenLabsWs[b])
    /\ LET r == handleIncomingAudio(aiWs, MediaPayload(p), elevenLabsWs[b])
       IN  /\ aiWs' = r.ai
           /\ last' = [NoEvent EXCEPT !.op = "media", !.bridge = b,
                                      !.callSid = callSid[b], !.payload = p,
                                      !.ws = elevenLabsWs[b],
                                      !.raised = r.raised, !.toAi = r.sent]
    /\ UNCHANGED <<apiKey, now, activeConnections, twilioWs, callSid, streamSid,
                   elevenLabsWs, pingInterval, pc, pending, intervals, evicted, born>>

\* case 'stop'.  fault: the close() call that raises inside closeConnection;
\* close() without arguments on an accepted socket does not raise, and only
\* the specification of teardown under close errors takes the other cases in.
TwilioStop(b, fault) ==
    /\ Receiving(b)
    /\ RoomForEnd(aiWs, elevenLabsWs[b])
    /\ LET e == closeElevenLabsConnection(aiWs, elevenLabsWs[b])
           r == closeConnection(activeConnections, twilioWs, e.ai, callSid[b], now,
                                fault)
       IN  /\ intervals' = clearInterval(intervals, pingInterval[b])
           /\ activeConnections' = r.conns
           /\ twilioWs' = r.tw
           /\ aiWs' = r.ai
           /\ last' = [NoEvent EXCEPT !.op = "stop", !.bridge = b,
                                      !.callSid = callSid[b], !.ws = elevenLabsWs[b],
                                      !.raised = e.raised, !.toAi = e.sent,
                                      !.metadata = r.metadata,
                                      !.closeRaised = r.raised,
                                      !.closed = Removed(activeConnections, r.conns),
                                      !.aiClosed = CloseCalled(e.ai, r.ai)]
    /\ born' = [c \in Keys |-> IF c = callSid[b] THEN -1 ELSE born[c]]
    /\ UNCHANGED <<apiKey, now, callSid, streamSid, elevenLabsWs, pingInterval,
                   pc, pending, evicted>>

\* ---------------------------------------------- telephony 'close', 'error'
TwilioClose(b) ==
    /\ twilioWs[b] # "CLOSED"
    /\ RoomForEnd(aiWs, elevenLabsWs[b])
    /\ LET tw0 == [twilioWs EXCEPT ![b] = "CLOSED"]
           e   == closeElevenLabsConnection(aiWs, elevenLabsWs[b])
           r   == IF Truthy(callSid[b])
                  THEN closeConnection(activeConnections, tw0, e.ai, callSid[b], now,
                                       "none")
                  ELSE [conns |-> activeConnections, tw |-> tw0, ai |-> e.ai,
                        metadata |-> <<>>, raised |-> "none"]
       IN  /\ intervals' = clearInterval(intervals, pingInterval[b])
           /\ activeConnections' = r.conns
           /\ twilioWs' = r.tw
           /\ aiWs' = r.ai
           /\ last' = [NoEvent EXCEPT !.op = "twilioClose", !.bridge = b,
                                      !.callSid = callSid[b], !.ws = elevenLabsWs[b],
                                      !.raised = e.raised, !.toAi = e.sent,
                                      !.metadata = r.metadata,
                                      !.closed = Removed(activeConnections, r.conns),
                                      !.aiClosed = CloseCalled(e.ai, r.ai)]
    /\ born' = [c \in Keys |-> IF Truthy(callSid[b]) /\ c = callSid[b] THEN -1 ELSE born[c]]
    /\ UNCHANGED <<apiKey, now, callSid, streamSid, elevenLabsWs, pingInterval,
                   pc, pending, evicted>>

TwilioError(b) ==
    /\ twilioWs[b] \in {"OPEN", "CLOSING"}
    /\ twilioWs' = [twilioWs EXCEPT ![b] = "FAILED"]
    /\ last' = [NoEvent EXCEPT !.op = "twilioError", !.bridge = b,
                               !.callSid = callSid[b], !.ws = elevenLabsWs[b]]
    /\ UNCHANGED <<apiKey, now, activeConnections, callSid, streamSid, elevenLabsWs,
                   pingInterval, pc, pending, aiWs, intervals, evicted, born>>


\* ------------------------------------------------------ AI socket events
Sockets == 1..Len(aiWs)

\* 'open': the listener of initializeElevenLabsConversation sends the
\* configuration.
AiOpen(ws) ==
    /\ ws \in Sockets
    /\ aiWs[ws].status = "CONNECTING"
    /\ aiWs' = AiSend([aiWs EXCEPT ![ws].status = "OPEN"], ws, "conversation_initiation")
    /\ last' = [NoEvent EXCEPT !.op = "aiOpen", !.ws = ws, !.callSid = aiWs[ws].callSid,
                               !.toAi = <<[ws |-> ws, type |-> "conversation_initiation"]>>]
    /\ UNCHANGED <<apiKey, now, activeConnections, twilioWs, callSid, streamSid,
                   elevenLabsWs, pingInterval, pc, pending, intervals, evicted, born>>

\* 'message': the listener of setupElevenLabsHandlers (a frame that arrives
\* before the listener is attached is dropped by the runtime).
AiMessage(ws, m) ==
    /\ ws \in Sockets
    /\ aiWs[ws].status \in {"OPEN", "CLOSING"}
    /\ aiWs[ws].bound
    /\ LET response == handleElevenLabsMessage(m)
           b        == aiWs[ws].twilioWs
           c        == aiWs[ws].callSid
       IN  CASE response.type = "audio" ->
                  LET r == sendAudioToTwilio(twilioWs, b,
                                             AudioPayload(response.payload.audio), c)
                  IN  /\ last' = [NoEvent EXCEPT !.op = "aiMessage", !.ws = ws,
                                     !.bridge = b, !.callSid = c, !.message = m,
                                     !.response = <<response>>,
                                     !.raised = r.raised, !.toTwilio = r.sent]
                      /\ UNCHANGED activeConnections
            [] response.type = "transcript" ->
                  /\ IF c \in DOMAIN activeConnections
                     THEN Len(activeConnections[c].transcript) < MaxTranscript
                     ELSE TRUE
                  /\ activeConnections' =
                        addTranscriptEntry(activeConnections, c,
                            response.payload.speaker, response.payload.text,
                            response.payload.is_final, now)
                  /\ last' = [NoEvent EXCEPT !.op = "aiMessage", !.ws = ws,
                                 !.bridge = b, !.callSid = c, !.message = m,
                                 !.response = <<response>>]
            [] OTHER ->
                  /\ last' = [NoEvent EXCEPT !.op = "aiMessage", !.ws = ws,
                                 !.bridge = b, !.callSid = c, !.message = m,
                                 !.response = <<response>>]
                  /\ UNCHANGED activeConnections
    /\ UNCHANGED <<apiKey, now, twilioWs, callSid, streamSid, elevenLabsWs,
                   pingInterval, pc, pending, aiWs, intervals, evicted, born>>

\* 'error' and 'close': the listeners of both functions only log.  The
\* 'close' event that follows an 'error' runs the same two logging
\* listeners and is not a step of its own.
AiError(ws) ==
    /\ ws \in Sockets
    /\ aiWs[ws].status \in {"CONNECTING", "OPEN", "CLOSING"}
    /\ aiWs' = [aiWs EXCEPT ![ws].status = "CLOSED"]
    /\ last' = [NoEvent EXCEPT !.op = "aiError", !.ws = ws, !.callSid = aiWs[ws].callSid,
                               !.bridge = aiWs[ws].twilioWs]
    /\ UNCHANGED <<apiKey, now, activeConnections, twilioWs, callSid, streamSid,
                   elevenLabsWs, pingInterval, pc, pending, intervals, evicted, born>>

AiClose(ws) ==
    /\ ws \in Sockets
    /\ aiWs[ws].status \in {"OPEN", "CLOSING"}
    /\ aiWs' = [aiWs EXCEPT ![ws].status = "CLOSED"]
    /\ last' = [NoEvent EXCEPT !.op = "aiClose", !.ws = ws, !.callSid = aiWs[ws].callSid,
                               !.bridge = aiWs[ws].twilioWs]
    /\ UNCHANGED <<apiKey, now, activeConnections, twilioWs, callSid, streamSid,
                   elevenLabsWs, pingInterval, pc, pending, intervals, evicted, born>>

\* ---------------------------------------------------------------- timers
\* The setTimeout of closeElevenLabsConnection, 100 ms after conversation_end.
CloseTimeout(ws) ==
    /\ ws \in Sockets
    /\ aiWs[ws].closeTimer
    /\ aiWs' = [aiWs EXCEPT ![ws].closeTimer = FALSE,
                            ![ws].status = IF ReadyState(@) = "OPEN" THEN "CLOSING" ELSE @]
    /\ last' = [NoEvent EXCEPT !.op = "closeTimeout", !.ws = ws,
                               !.callSid = aiWs[ws].callSid]
    /\ UNCHANGED <<apiKey, now, activeConnections, twilioWs, callSid, streamSid,
                   elevenLabsWs, pingInterval, pc, pending, intervals, evicted, born>>

\* The setInterval callback of 'start': it pings whatever the bridge's
\* elevenLabsWs variable holds when it fires.
PingTick(id) ==
    /\ id \in 1..Len(intervals)
    /\ intervals[id].active
    /\ LET b == intervals[id].owner
           r == pingElevenLabs(aiWs, elevenLabsWs[b])
       IN  /\ RoomFor(aiWs, elevenLabsWs[b])
           /\ aiWs' = r.ai
           /\ last' = [NoEvent EXCEPT !.op = "ping", !.bridge = b, !.ws = elevenLabsWs[b],
                                      !.callSid = intervals[id].callSid, !.toAi = r.sent]
    /\ UNCHANGED <<apiKey, now, activeConnections, twilioWs, callSid, streamSid,
                   elevenLabsWs, pingInterval, pc, pending, intervals, evicted, born>>

\* ---------------------------------------------------------------- reaper
\* POST /ws/cleanup.
Sweep ==
    /\ LET r == cleanupStaleConnections(activeConnections, twilioWs, aiWs, now)
       IN  /\ activeConnections' = r.conns
           /\ twilioWs' = r.tw
           /\ aiWs' = r.ai
           /\ evicted' = evicted \cup ((DOMAIN activeConnections) \ (DOMAIN r.conns))
           /\ born' = [c \in Keys |->
                         IF born[c] >= 0 /\ now - born[c] > MaxDurationMs + GraceMs
                         THEN -1 ELSE born[c]]
           /\ last' = [NoEvent EXCEPT !.op = "sweep", !.cleaned = r.cleaned,
                                      !.closed = Removed(activeConnections, r.conns),
                                      !.aiClosed = CloseCalled(aiWs, r.ai)]
    /\ UNCHANGED <<apiKey, now, callSid, streamSid, elevenLabsWs, pingInterval,
                   pc, pending, intervals>>

Tick(t) ==
    /\ t > now
    /\ now' = t
    /\ last' = [NoEvent EXCEPT !.op = "tick"]
    /\ UNCHANGED <<apiKey, activeConnections, twilioWs, callSid, streamSid,
                   elevenLabsWs, pingInterval, pc, pending, aiWs, intervals, evicted, born>>

\* ------------------------------------------- the registry's functions
\* createConnectionState(c, s) and closeConnection(c) called on their own,
\* as a caller of the module may.
RegCreate(c, s) ==
    /\ activeConnections' = createConnectionState(activeConnections, c, s, now)
    /\ evicted' = evicted \ {c}
    /\ born' = [born EXCEPT ![c] = now]
    /\ last' = [NoEvent EXCEPT !.op = "create", !.callSid = c, !.payload = s,
                               !.replaced = Replaced(activeConnections, c)]
    /\ UNCHANGED <<apiKey, now, twilioWs, callSid, streamSid, elevenLabsWs,
                   pingInterval, pc, pending, aiWs, intervals>>

RegClose(c) ==
    /\ LET r == closeConnection(activeConnections, twilioWs, aiWs, c, now, "none")
       IN  /\ activeConnections' = r.conns
           /\ twilioWs' = r.tw
           /\ aiWs' = r.ai
           /\ last' = [NoEvent EXCEPT !.op = "close", !.callSid = c,
                                      !.metadata = r.metadata,
                                      !.closed = Removed(activeConnections, r.conns),
                                      !.aiClosed = CloseCalled(aiWs, r.ai)]
    /\ born' = [born EXCEPT ![c] = -1]
    /\ UNCHANGED <<apiKey, now, callSid, streamSid, elevenLabsWs, pingInterval,
                   pc, pending, intervals, evicted>>

\* ------------------------------------------------------------------ Next
\* One telephony socket and one call, with every kind of event on both
\* legs, the reaper and the clock.
MainBridges == {"b1"}
MainCalls == {"CA1"}
MainStreams == {"SS1"}
MainMedia == {"silence", "below", "voice", "empty", "bad"}
MainFrames == {AiFrame("audio", "pcm", "", "", FALSE),
               AiFrame("transcript", "", "agent", "Hello", TRUE),
               AiFrame("interruption", "", "", "", FALSE)}
MainInstants == {0, MaxDurationMs + GraceMs + 1}

Next ==
    \/ \E b \in MainBridges : TwilioOther(b, "connected")
    \/ \E b \in MainBridges, c \in MainCalls, s \in MainStreams :
          TwilioStart(b, c, s, TRUE)
    \/ \E b \in MainBridges : StartResume(b)
    \/ \E b \in MainBridges, p \in MainMedia : TwilioMedia(b, p)
    \/ \E b \in MainBridges : TwilioStop(b, "none")
    \/ \E b \in MainBridges : TwilioClose(b)
    \/ \E b \in MainBridges : TwilioError(b)
    \/ \E ws \in AiHandles : AiOpen(ws)
    \/ \E ws \in AiHandles, m \in MainFrames : AiMessage(ws, m)
    \/ \E ws \in AiHandles : AiError(ws)
    \/ \E ws \in AiHandles : AiClose(ws)
    \/ \E ws \in AiHandles : CloseTimeout(ws)
    \/ \E id \in TimerHandles : PingTick(id)
    \/ Sweep
    \/ \E t \in MainInstants : Tick(t)

Spec == Init /\ [][Next]_vars

\* Any sequence of creates, closes and sweeps on two call identifiers, at
\* instants on both sides of the reaper's threshold.
NextRegistry ==
    \/ \E c \in CallSids, s \in StreamSids : RegCreate(c, s)
    \/ \E c \in CallSids : RegClose(c)
    \/ Sweep
    \/ \E t \in Instants : Tick(t)

SpecRegistry == Init /\ [][NextRegistry]_vars

\* One telephony socket with every kind of frame on both legs: telephony
\* frames that are malformed or carry no callSid, AI messages of every
\* type, of an unknown type, that are no JSON, that are the JSON null.
FrameKinds == {"connected", "unparseable", "startNoFields"}
FrameInstants == {0, 7}
FrameCalls == {"CA1", Undefined}
FrameMessages ==
    {AiFrame("audio", "pcm", "", "", FALSE),
     AiFrame("transcript", "", "agent", "Hello", TRUE),
     AiFrame("transcript", "", "user", "Hi", FALSE),
     AiFrame("interruption", "", "", "", FALSE),
     AiFrame("error", "", "", "", FALSE),
     AiFrame("pong", "", "", "", FALSE),
     InvalidFrame,
     NullFrame}

NextFrames ==
    \/ \E b \in MainBridges, kind \in FrameKinds : TwilioOther(b, kind)
    \/ \E b \in MainBridges, c \in FrameCalls, s \in MainStreams :
          TwilioStart(b, c, s, TRUE)
    \/ \E b \in MainBridges : StartResume(b)
    \/ \E b \in MainBridges : TwilioStop(b, "none")
    \/ \E ws \in AiHandles : AiOpen(ws)
    \/ \E ws \in AiHandles, m \in FrameMessages : AiMessage(ws, m)
    \/ \E t \in FrameInstants : Tick(t)

SpecFrames == Init /\ [][NextFrames]_vars

\* One call under a reaper that is called again and again while the clock
\* advances: POST /ws/cleanup is meant for a cron trigger, which the weak
\* fairness of Sweep stands for, and Date.now() moves on.
ReaperInstants == {0, MaxDurationMs + GraceMs + 1, 2 * (MaxDurationMs + GraceMs + 1)}

NextReaper ==
    \/ \E b \in MainBridges, c \in MainCalls, s \in MainStreams :
          TwilioStart(b, c, s, TRUE)
    \/ \E b \in MainBridges : StartResume(b)
    \/ \E b \in MainBridges : TwilioStop(b, "none")
    \/ \E b \in MainBridges : TwilioClose(b)
    \/ \E ws \in AiHandles : AiOpen(ws)
    \/ Sweep
    \/ \E t \in ReaperInstants : Tick(t)

SpecReaper ==
    /\ Init
    /\ [][NextReaper]_vars
    /\ WF_vars(Sweep)
    /\ WF_vars(\E t \in ReaperInstants : Tick(t))

\* Teardown of one call when a close() may raise: the call's start, its AI
\* socket's events, and 'stop' and 'close' with each close() call of
\* closeConnection raising or not.
CloseFrames == {AiFrame("transcript", "", "agent", "Hello", TRUE)}

NextClose ==
    \/ \E b \in MainBridges, c \in MainCalls, s \in MainStreams :
          TwilioStart(b, c, s, TRUE)
    \/ \E b \in MainBridges : StartResume(b)
    \/ \E b \in MainBridges, fault \in CloseFaults : TwilioStop(b, fault)
    \/ \E b \in MainBridges : TwilioClose(b)
    \/ \E ws \in AiHandles : AiOpen(ws)
    \/ \E ws \in AiHandles, m \in CloseFrames : AiMessage(ws, m)
    \/ \E ws \in AiHandles : AiClose(ws)
    \/ \E ws \in AiHandles : CloseTimeout(ws)

SpecClose == Init /\ [][NextClose]_vars

\* Two telephony sockets, each carrying its own call: every event of one
\* call's two legs, interleaved with the other's.
CallOf(b) == IF b = "b1" THEN "CA1" ELSE "CA2"
StreamOf(b) == IF b = "b1" THEN "SS1" ELSE "SS2"
\* The 'start' of the call of telephony socket b.  The two calls are alike:
\* the one on b1 is taken to start first.
TwoStart(b) ==
    /\ IF b = "b1" THEN TRUE ELSE callSid["b1"] # ""
    /\ TwilioStart(b, CallOf(b), StreamOf(b), TRUE)

TwoFrames == {AiFrame("transcript", "", "agent", "Hello", TRUE)}

NextTwo ==
    \/ \E b \in Bridges : TwoStart(b)
    \/ \E b \in Bridges : StartResume(b)
    \/ \E b \in Bridges : TwilioMedia(b, "voice")
    \/ \E b \in Bridges : TwilioStop(b, "none")
    \/ \E b \in Bridges : TwilioClose(b)
    \/ \E b \in Bridges : TwilioError(b)
    \/ \E ws \in AiHandles : AiOpen(ws)
    \/ \E ws \in AiHandles, m \in TwoFrames : AiMessage(ws, m)
    \/ \E ws \in AiHandles : AiError(ws)
    \/ \E ws \in AiHandles : AiClose(ws)

SpecTwo == Init /\ [][NextTwo]_vars

\* ------------------------------------------------------------ properties
\* The keepalive timer the bridge's pingInterval variable holds is running.
KeepaliveActive(b) == pingInterval[b] # 0 /\ intervals[pingInterval[b]].active

\* The timers started for call c that are still running.
TimersOf(c) == {id \in 1..Len(intervals) : intervals[id].active /\ intervals[id].callSid = c}

\* The types of the messages in a list of sent messages.
TypesOf(sent) == {sent[i].type : i \in 1..Len(sent)}

\* The audio functions applied to one input each: every 16-bit sample,
\* buffers of the lengths and the rates the calls use and of lengths and
\* rates whose quotient is not a double, thresholds from one step of a
\* sample up to full scale, and companded payloads of up to three codes.
Samples == -32768..32767
Silence(n) == [k \in 1..n |-> 0]
AudioBuffers ==
    {<<>>, <<0>>, <<0, 0>>, <<324>>, <<340, -340>>, <<1000, -340, 7>>,
     <<-20000, 19999, 19999, -1, 0, 1>>,
     Silence(9), Silence(160), Silence(960)}
Rates == {7, 9, 8000, 11025, 16000, 24000}
ThresholdExponents == 0..15
Codes == {127, 255, 227, 226, 98}
CodeSequences == UNION {[1..n -> Codes] : n \in 0..3}

Applied(op, args, result) ==
    [NoEvent EXCEPT !.op = op, !.response = <<[args |-> args, result |-> result]>>]

\* Every step applies one function to one input, in the state after
\* construction.
ApplyLinearToMulaw ==
    /\ last.op = "none"
    /\ \E sample \in Samples :
           last' = Applied("linearToMulaw", <<sample>>, linearToMulaw(sample))
    /\ UNCHANGED <<apiKey, now, activeConnections, twilioWs, callSid, streamSid,
                   elevenLabsWs, pingInterval, pc, pending, aiWs, intervals,
                   evicted, born>>

ApplyResampleAudio ==
    /\ last.op = "none"
    /\ \E audioData \in AudioBuffers, fromRate \in Rates, toRate \in Rates :
           last' = Applied("resampleAudio", <<audioData, fromRate, toRate>>,
                           resampleAudio(audioData, fromRate, toRate))
    /\ UNCHANGED <<apiKey, now, activeConnections, twilioWs, callSid, streamSid,
                   elevenLabsWs, pingInterval, pc, pending, aiWs, intervals,
                   evicted, born>>

\* detectVoiceActivity(audioData): the threshold is the default 0.01.
ApplyDetectVoiceActivity ==
    /\ last.op = "none"
    /\ \E audioData \in AudioBuffers :
           last' = Applied("detectVoiceActivity", <<audioData>>,
                           [rms |-> calculateRMS(audioData),
                            voice |-> detectVoiceActivity(audioData)])
    /\ UNCHANGED <<apiKey, now, activeConnections, twilioWs, callSid, streamSid,
                   elevenLabsWs, pingInterval, pc, pending, aiWs, intervals,
                   evicted, born>>

\* detectVoiceActivity(audioData, threshold) with threshold 2^-k.
ApplyDetectVoiceActivityAt ==
    /\ last.op = "none"
    /\ \E audioData \in AudioBuffers, k \in ThresholdExponents :
           last' = Applied("detectVoiceActivityAt", <<audioData, k>>,
                           [rms |-> calculateRMS(audioData),
                            voice |-> detectVoiceActivityAt(audioData, k)])
    /\ UNCHANGED <<apiKey, now, activeConnections, twilioWs, callSid, streamSid,
                   elevenLabsWs, pingInterval, pc, pending, aiWs, intervals,
                   evicted, born>>

\* The decoding and the classification of handleIncomingAudio: the payload
\* is decoded to PCM16, read back as samples and tested for voice.
ApplyClassify ==
    /\ last.op = "none"
    /\ \E mulawBytes \in CodeSequences :
           LET pcm16Audio   == mulawToPcm16(Base64(mulawBytes))
               audioSamples == BytesToInt16(base64ToUint8Array(pcm16Audio))
           IN  last' = Applied("classify", <<mulawBytes>>,
                               [audioSamples |-> audioSamples,
                                hasVoice |-> detectVoiceActivity(audioSamples)])
    /\ UNCHANGED <<apiKey, now, activeConnections, twilioWs, callSid, streamSid,
                   elevenLabsWs, pingInterval, pc, pending, aiWs, intervals,
                   evicted, born>>

InitAudio == Init /\ apiKey = "real"

NextAudio ==
    \/ ApplyLinearToMulaw
    \/ ApplyResampleAudio
    \/ ApplyDetectVoiceActivity
    \/ ApplyDetectVoiceActivityAt
    \/ ApplyClassify

SpecAudio == InitAudio /\ [][NextAudio]_vars

C2_ErrorOrAiCloseTearsDown ==
    (/\ last.op \in {"twilioError", "aiError", "aiClose"}
     /\ last.callSid # ""
     /\ pc[last.bridge] = "idle") =>
        /\ last.callSid \notin DOMAIN activeConnections
        /\ TimersOf(last.callSid) = {}

\* C3: a keepalive timer that is running belongs to a call whose Session is
\* in the registry.
C3_TimerImpliesSession ==
    \A id \in 1..Len(intervals) :
        intervals[id].active => intervals[id].callSid \in DOMAIN activeConnections

\* C4: a sweep that evicts a Session whose AI socket is open sends
\* conversation_end on that socket before it closes it, cancels the
\* keepalive timer of the call and removes the Session, as 'stop' does.
C4_EvictionAsStop ==
    last.op = "sweep" =>
        \A st \in last.closed :
            st.elevenLabsWs \in last.aiClosed =>
                /\ \E i \in 1..Len(last.toAi) :
                      /\ last.toAi[i].ws = st.elevenLabsWs
                      /\ last.toAi[i].type = "conversation_end"
                /\ TimersOf(st.callSid) = {}
                /\ st.callSid \notin DOMAIN activeConnections

\* C5: every 'media' frame sent on a telephony socket carries the
\* streamSid of the call's Session, the one its 'start' event brought.
C5_OutboundStreamSid ==
    \A i \in 1..Len(last.toTwilio) :
        (last.toTwilio[i].event = "media" /\ last.callSid \in DOMAIN activeConnections) =>
            last.toTwilio[i].streamSid = activeConnections[last.callSid].streamSid

\* The 16-bit samples a telephony chunk stands for by the G.711 mu-law
\* table, and whether their RMS, on the scale where 32768 is 1, exceeds
\* 0.01: sum(x^2) / (n * 2^30) > 10^-4, that is 625 * sum(x^2) > 2^26 * n.
G711Samples(name) ==
    IF name = "silence" THEN <<0, 0>>
    ELSE IF name = "below" THEN <<324>>
    ELSE IF name = "voice" THEN <<340, -340>>
    ELSE <<>>
Voiced(name) ==
    /\ name \in {"silence", "below", "voice"}
    /\ 625 * SumSquares(G711Samples(name)) > 67108864 * Len(G711Samples(name))

\* C6: a telephony 'media' event makes the bridge send an audio_input on
\* the AI socket exactly when that socket is open and the decoded chunk's
\* RMS exceeds the silence threshold; a silent chunk is never forwarded.
C6_MediaForwardedIffVoice ==
    last.op = "media" =>
        LET open == IF last.ws = 0 THEN FALSE ELSE aiWs[last.ws].status = "OPEN"
        IN  /\ ("audio_input" \in TypesOf(last.toAi)) <=> (open /\ Voiced(last.payload))
            /\ Len(last.toAi) <= 1

\* C6, its case: a chunk above the threshold was forwarded.
C6_Witness ==
    /\ last.op = "media"
    /\ last.payload = "voice"
    /\ TypesOf(last.toAi) = {"audio_input"}

\* C7: on every AI socket at most one conversation_initiation is sent, it
\* is the first message of a socket that has opened, and every audio_input
\* and ping comes after it.
C7_InitiationOnceAndFirst ==
    \A ws \in Sockets :
        LET log == aiWs[ws].sent
        IN  /\ Cardinality({i \in 1..Len(log) : log[i] = "conversation_initiation"}) <= 1
            /\ aiWs[ws].status \in {"OPEN", "CLOSING"} =>
                  (Len(log) >= 1 /\ log[1] = "conversation_initiation")
            /\ \A i \in 1..Len(log) :
                  log[i] \in {"audio_input", "ping"} =>
                      (i > 1 /\ log[1] = "conversation_initiation")

\* C7, its case: a socket on which a ping or an audio_input followed the
\* configuration.
C7_Witness ==
    \E ws \in Sockets :
        /\ Len(aiWs[ws].sent) >= 2
        /\ aiWs[ws].sent[1] = "conversation_initiation"
        /\ aiWs[ws].sent[2] \in {"audio_input", "ping"}

\* C8: with a dummy or a missing API key the open of the AI leg returns
\* null without raising, 'start' creates the Session with no AI socket,
\* conversationStarted false and no keepalive timer, and no 'media' event
\* forwards anything.
C8_UnconfiguredAi ==
    apiKey \in {"dummy_", "missing"} =>
        /\ last.op = "resume" => (~last.raised /\ last.ws = 0)
        /\ last.op = "start" => last.callSid \in DOMAIN activeConnections
        /\ \A c \in DOMAIN activeConnections :
              /\ activeConnections[c].elevenLabsWs = 0
              /\ ~activeConnections[c].conversationStarted
        /\ aiWs = <<>>
        /\ intervals = <<>>
        /\ last.op = "media" => last.toAi = <<>>

\* A step that calls updateConnectionState (the 'start' listener after an
\* AI socket was returned) or addTranscriptEntry (a transcript message)
\* for a callSid that has no Session.
MissingIdStep ==
    /\ last'.callSid \notin DOMAIN activeConnections
    /\ \/ last'.op = "resume" /\ last'.ws # 0
       \/ last'.op = "aiMessage" /\ last'.message.type = "transcript"

\* C9: updateConnectionState and addTranscriptEntry on a callSid that has
\* no Session raise nothing and leave the registry as it was.
C9_MissingIdIsNoOp ==
    [][MissingIdStep => (activeConnections' = activeConnections /\ ~last'.raised)]_vars

\* C9, its case: a transcript message handled for a call whose Session was
\* closed.
C9_Witness ==
    /\ last.op = "aiMessage"
    /\ last.message.type = "transcript"
    /\ last.callSid # ""
    /\ last.callSid \notin DOMAIN activeConnections

\* C10: once a sweep has removed the Session of a call, no step other than
\* a new 'start' makes it present again, and the update after the AI open
\* and the transcript append for that call raise nothing.
C10_EvictedStaysAbsent ==
    [][\A c \in evicted :
          /\ last'.op # "start" => c \notin DOMAIN activeConnections'
          /\ (/\ last'.callSid = c
              /\ \/ last'.op = "resume" /\ last'.ws # 0
                 \/ last'.op = "aiMessage" /\ last'.message.type = "transcript")
             => ~last'.raised]_vars

\* C10, its case: the 'start' listener resumed with an AI socket after the
\* sweep had evicted its Session.
C10_Witness ==
    /\ last.op = "resume"
    /\ last.ws # 0
    /\ last.callSid \in evicted

\* The call identifiers whose latest create was followed by no close and no
\* eviction.
Live == {c \in Keys : born[c] >= 0}

\* C11: after any sequence of creates, closes and sweeps a call identifier
\* has a Session exactly when its latest create was followed by no close
\* and no eviction of it, the Session found under an identifier is that
\* identifier's own, and getActiveConnectionCount is the number of such
\* identifiers.
C11_SessionIffLive ==
    /\ DOMAIN activeConnections = Live
    /\ \A c \in DOMAIN activeConnections : activeConnections[c].callSid = c
    /\ getActiveConnectionCount(activeConnections) = Cardinality(Live)

\* C11, its case: the only call was created and then closed.
C11_Witness ==
    /\ last.op = "close"
    /\ last.metadata # <<>>
    /\ last.callSid \notin DOMAIN activeConnections
    /\ getActiveConnectionCount(activeConnections) = 0

\* The Sessions of the registry that are older than the maximum call
\* duration plus one minute.
Overdue == {c \in DOMAIN activeConnections :
               now - activeConnections[c].startTime > MaxDurationMs + GraceMs}

\* C12: a sweep removes exactly the Sessions whose age is strictly greater
\* than maxDurationMs + 60000, leaves every other Session present with its
\* fields unchanged, and returns the number of Sessions it removed.
C12_SweepRemovesOverdue ==
    [][last'.op = "sweep" =>
          /\ DOMAIN activeConnections' = (DOMAIN activeConnections) \ Overdue
          /\ \A c \in DOMAIN activeConnections' :
                activeConnections'[c] = activeConnections[c]
          /\ last'.cleaned = Cardinality(Overdue)]_vars

\* C12, its case: a sweep that removed one Session and kept one whose age
\* is exactly the threshold.
C12_Witness ==
    /\ last.op = "sweep"
    /\ last.cleaned = 1
    /\ \E c \in DOMAIN activeConnections :
          now - activeConnections[c].startTime = MaxDurationMs + GraceMs

\* C13: a second sweep, with no Session created after the first and the
\* clock unchanged, returns 0 and leaves the registry as the first left it.
C13_SweepIdempotent ==
    last.op = "sweep" =>
        LET again == cleanupStaleConnections(activeConnections, twilioWs, aiWs, now)
        IN  /\ again.cleaned = 0
            /\ again.conns = activeConnections

\* C13, its case: a first sweep that removed a Session and left another.
C13_Witness ==
    /\ last.op = "sweep"
    /\ last.cleaned >= 1
    /\ activeConnections # <<>>

\* The fields of a Session other than its transcript.
OtherFields == {"callSid", "streamSid", "conversationStarted", "twilioWs",
                "elevenLabsWs", "conversationContext", "startTime"}

\* C14: an AI 'transcript' message handled while the call's Session exists
\* appends exactly one entry to that Session, with the message's speaker,
\* text and finality flag, and changes no other field of it.
C14_TranscriptAppendsOne ==
    [][(/\ last'.op = "aiMessage"
        /\ last'.message.json = "object"
        /\ last'.message.type = "transcript"
        /\ last'.callSid \in DOMAIN activeConnections) =>
          LET c      == last'.callSid
              before == activeConnections[c]
              after  == activeConnections'[c]
              n      == Len(before.transcript)
          IN  /\ c \in DOMAIN activeConnections'
              /\ Len(after.transcript) = n + 1
              /\ SubSeq(after.transcript, 1, n) = before.transcript
              /\ after.transcript[n + 1].speaker = last'.message.speaker
              /\ after.transcript[n + 1].text = last'.message.text
              /\ after.transcript[n + 1].is_final = last'.message.is_final
              /\ \A f \in OtherFields : after[f] = before[f]]_vars

\* C14, its case: the Session's transcript gained the entry of a non-final
\* user transcript after an earlier entry.
C14_Witness ==
    /\ last.op = "aiMessage"
    /\ last.message.type = "transcript"
    /\ last.callSid \in DOMAIN activeConnections
    /\ LET t == activeConnections[last.callSid].transcript
       IN  /\ Len(t) = 2
           /\ t[2].speaker = "user"
           /\ t[2].text = "Hi"
           /\ ~t[2].is_final

\* The positions of the final entries of a transcript, and those of them
\* spoken by one speaker.
FinalEntries(t) == {i \in DOMAIN t : t[i].is_final}
FinalBy(t, speaker) == {i \in FinalEntries(t) : t[i].speaker = speaker}

\* C15: the metadata closeConnection returns for an existing Session counts
\* the Session's final transcript entries (all of them, those of the agent,
\* those of the user, the two together at most the total), and its
\* totalDuration is endTime - startTime and is not negative; a Session whose
\* only entry is one final agent transcript gives 1, 1, 0.
C15_MetadataCounts ==
    last.metadata # <<>> =>
        /\ Cardinality(last.closed) = 1
        /\ \A s \in last.closed :
              LET m == last.metadata[1]
                  t == s.transcript
              IN  /\ m.utteranceCount = Cardinality(FinalEntries(t))
                  /\ m.agentUtterances = Cardinality(FinalBy(t, "agent"))
                  /\ m.userUtterances = Cardinality(FinalBy(t, "user"))
                  /\ m.agentUtterances + m.userUtterances <= m.utteranceCount
                  /\ m.startTime = s.startTime
                  /\ m.endTime = now
                  /\ m.totalDuration = m.endTime - m.startTime
                  /\ m.totalDuration >= 0
                  /\ (Len(t) = 1 /\ t[1].is_final /\ t[1].speaker = "agent") =>
                        /\ m.utteranceCount = 1
                        /\ m.agentUtterances = 1
                        /\ m.userUtterances = 0

\* C15, its case: a 'stop' some time after the start closed a Session that
\* held one final agent entry and one entry that is not final.
C15_Witness ==
    /\ last.op = "stop"
    /\ last.metadata # <<>>
    /\ last.metadata[1].utteranceCount = 1
    /\ last.metadata[1].agentUtterances = 1
    /\ last.metadata[1].userUtterances = 0
    /\ last.metadata[1].totalDuration > 0
    /\ \E s \in last.closed : Len(s.transcript) = 2

\* The entries of a transcript.
Entries(t) == {t[i] : i \in DOMAIN t}

\* C16: a 'start' for a call identifier that already has a Session replaces
\* it: right after createConnectionState the registry's Session of the
\* identifier has an empty transcript, conversationStarted false and no AI
\* socket handle, and no entry of the replaced Session's transcript is in any
\* transcript of the registry.
C16_DuplicateStartReplaces ==
    (last.op = "start" /\ last.replaced # {}) =>
        /\ last.callSid \in DOMAIN activeConnections
        /\ activeConnections[last.callSid].transcript = <<>>
        /\ ~activeConnections[last.callSid].conversationStarted
        /\ activeConnections[last.callSid].elevenLabsWs = 0
        /\ \A c \in DOMAIN activeConnections, old \in last.replaced :
              Entries(activeConnections[c].transcript)
                  \cap Entries(old.transcript) = {}

\* C16, its case: a 'start' replaced a Session that had started its
\* conversation and held transcript entries.
C16_Witness ==
    /\ last.op = "start"
    /\ last.replaced # {}
    /\ \E old \in last.replaced : /\ old.conversationStarted
                                  /\ old.elevenLabsWs # 0
                                  /\ old.transcript # <<>>
    /\ activeConnections[last.callSid].transcript = <<>>

\* The events of one call: the frames and socket events of its two legs.
CallEvents == {"media", "aiMessage", "stop", "twilioClose", "twilioError",
               "aiError", "aiClose"}

\* What the model holds of the call on telephony socket b: its Session, the
\* bridge's variables, its two sockets and its keepalive timer.
CallView(b, conns, tw, ai, timers) ==
    [session   |-> getConnectionState(conns, callSid[b]),
     twilio    |-> tw[b],
     ai        |-> IF elevenLabsWs[b] # 0 THEN <<ai[elevenLabsWs[b]]>> ELSE <<>>,
     keepalive |-> IF pingInterval[b] # 0 THEN <<timers[pingInterval[b]]>> ELSE <<>>]

\* C17: with two calls on two telephony sockets, an event of one call (media,
\* a transcript from its AI leg, stop, close or error of either of its
\* sockets) leaves the other call's Session in the registry and unchanged,
\* its keepalive timer as it was and its two sockets in the state they had.
C17_Isolation ==
    [][\A a \in Bridges, b \in Bridges :
          (/\ a # b
           /\ last'.op \in CallEvents
           /\ last'.bridge = a
           /\ callSid[b] \in DOMAIN activeConnections
           /\ callSid[a] # callSid[b]) =>
              /\ callSid[b] \in DOMAIN activeConnections'
              /\ callSid'[b] = callSid[b]
              /\ streamSid'[b] = streamSid[b]
              /\ elevenLabsWs'[b] = elevenLabsWs[b]
              /\ pingInterval'[b] = pingInterval[b]
              /\ CallView(b, activeConnections', twilioWs', aiWs', intervals')
                    = CallView(b, activeConnections, twilioWs, aiWs, intervals)]_vars

\* C17, its case: one call, live with an open AI socket, was stopped while the
\* other was live with its
\* Session, an open AI socket and a running keepalive, all of which it has
\* kept.
C17_Witness ==
    /\ last.op = "stop"
    /\ last.metadata # <<>>
    /\ last.ws # 0
    /\ last.aiClosed # {}
    /\ \E b \in Bridges \ {last.bridge} :
          /\ callSid[b] \in DOMAIN activeConnections
          /\ activeConnections[callSid[b]].transcript # <<>>
          /\ twilioWs[b] = "OPEN"
          /\ elevenLabsWs[b] # 0
          /\ aiWs[elevenLabsWs[b]].status = "OPEN"
          /\ KeepaliveActive(b)

\* The last frame was a malformed telephony frame (one that does not parse,
\* a 'start' without its start object, a 'start' whose start object has no
\* callSid) or a 'connected' event.
MalformedOrConnected(e) ==
    IF e.op \in FrameKinds THEN TRUE
    ELSE IF e.op = "start" THEN e.callSid = Undefined
    ELSE FALSE

\* C18: a telephony frame that is malformed, or that is a 'connected' event,
\* changes no state: the registry, the bridge's call and stream identifiers,
\* the AI socket, the keepalive timer and the sockets are as they were, and
\* nothing is sent on either socket.
C18_MalformedChangesNothing ==
    [][MalformedOrConnected(last') =>
          /\ UNCHANGED <<activeConnections, callSid, streamSid, elevenLabsWs,
                         pingInterval, twilioWs, aiWs, intervals>>
          /\ last'.toAi = <<>>
          /\ last'.toTwilio = <<>>]_vars

\* An AI frame that is an 'interruption' or an 'error' message, or that does
\* not parse.
InterruptionOrError(m) ==
    IF m.json = "invalid" THEN TRUE
    ELSE IF m.json = "object" THEN m.type \in {"interruption", "error"}
    ELSE FALSE

\* C19: an 'interruption' or 'error' message from the AI endpoint, or a frame
\* from it that does not parse, tears nothing down: the registry with every
\* Session and transcript, the bridge's variables, both sockets and the
\* keepalive timers are as they were, and nothing is sent.
C19_NoTeardownOnInterruptionOrError ==
    [][(last'.op = "aiMessage" /\ InterruptionOrError(last'.message)) =>
          /\ last'.response[1].type \in {"interruption", "error"}
          /\ UNCHANGED <<activeConnections, callSid, streamSid, elevenLabsWs,
                         pingInterval, twilioWs, aiWs, intervals>>
          /\ last'.toAi = <<>>
          /\ last'.toTwilio = <<>>]_vars

\* C19, its case: an 'interruption' arrived on a live call, whose Session
\* with its transcript, open sockets and running keepalive are still there.
C19_Witness ==
    /\ last.op = "aiMessage"
    /\ last.message.type = "interruption"
    /\ last.callSid \in DOMAIN activeConnections
    /\ activeConnections[last.callSid].transcript # <<>>
    /\ twilioWs[last.bridge] = "OPEN"
    /\ aiWs[last.ws].status = "OPEN"
    /\ KeepaliveActive(last.bridge)

\* The kinds handleElevenLabsMessage declares for its result.
ResultKinds == {"audio", "transcript", "interruption", "error", "unknown"}

\* C20: for every frame handleElevenLabsMessage returns a result of one of
\* the five kinds; text that is no JSON gives kind error with the
\* parse-failure payload, and JSON whose type is none of the four known
\* types gives kind unknown.
C20_DecodeTotal ==
    last.op = "aiMessage" =>
        /\ Len(last.response) = 1
        /\ last.response[1].type \in ResultKinds
        /\ IF last.message.json = "invalid"
           THEN last.response[1] = ParseFailure
           ELSE IF last.message.json = "null"
           THEN last.response[1].type = "unknown"
           ELSE IF last.message.type \notin KnownAiTypes
           THEN last.response[1].type = "unknown"
           ELSE last.response[1].type = last.message.type

\* The listeners of the telephony socket's frames.
TelephonyFrames == {"connected", "unparseable", "startNoFields", "start",
                    "media", "stop"}

\* C21: a bridge moves from awaiting its 'start' to streaming to closed and
\* never back: only a 'start' adds a Session to the registry; a 'media'
\* frame on a socket that has had no 'start' forwards nothing and creates no
\* Session; and once a socket's listeners have handled a 'stop' or the
\* 'close' event, the next telephony frame on that socket, a 'start'
\* included, adds no Session and opens no AI socket.
C21_NeverBackwards ==
    [][/\ (DOMAIN activeConnections' \ DOMAIN activeConnections # {}) =>
              last'.op = "start"
       /\ (last'.op = "media" /\ callSid[last'.bridge] = "") =>
              /\ last'.toAi = <<>>
              /\ activeConnections' = activeConnections
       /\ (/\ last.op \in {"stop", "twilioClose"}
           /\ last'.op \in TelephonyFrames
           /\ last'.bridge = last.bridge) =>
              /\ DOMAIN activeConnections' \subseteq DOMAIN activeConnections
              /\ Len(aiWs') = Len(aiWs)]_vars

\* The AI sockets that a Session of the registry holds.
OwnedAiSockets == {activeConnections[c].elevenLabsWs : c \in DOMAIN activeConnections}

\* C22: when a Session is removed from the registry (by 'stop', by the
\* telephony socket's 'close' or by the reaper) a close has been issued on
\* both of its sockets, so neither is left connecting or open; and no AI
\* socket that a bridge has attached to a call is open, with no close
\* scheduled, while no Session holds it.
C22_RemovedSessionClosesBoth ==
    /\ \A s \in last.closed :
          /\ IF s.twilioWs = NULL THEN TRUE
             ELSE twilioWs[s.twilioWs] \in {"CLOSING", "CLOSED"}
          /\ IF s.elevenLabsWs = 0 THEN TRUE
             ELSE ReadyState(aiWs[s.elevenLabsWs].status) \in {"CLOSING", "CLOSED"}
    /\ \A ws \in Sockets :
          (aiWs[ws].bound /\ aiWs[ws].status = "OPEN" /\ ~aiWs[ws].closeTimer) =>
              ws \in OwnedAiSockets

\* C23: errors raised while closing sockets are swallowed and do not block
\* teardown: a closeConnection that finds the Session removes it and returns
\* its metadata, and when the Session's AI socket is open close() is called
\* on it (it goes to CLOSING, or its own close() raises), whether or not
\* closing the telephony socket raised.
C23_CloseErrorsSwallowed ==
    [][(last'.op = "stop" /\ callSid[last'.bridge] \in DOMAIN activeConnections) =>
          /\ last'.metadata # <<>>
          /\ callSid[last'.bridge] \notin DOMAIN activeConnections'
          /\ LET ws == activeConnections[callSid[last'.bridge]].elevenLabsWs
             IN  IF ws = 0 THEN TRUE
                 ELSE IF aiWs[ws].status # "OPEN" THEN TRUE
                 ELSE ws \in last'.aiClosed \/ last'.closeRaised = "ai"]_vars

\* The registry holds the Session of call c that was created at instant t.
SessionOf(c, t) ==
    IF c \in DOMAIN activeConnections THEN activeConnections[c].startTime = t
    ELSE FALSE

Arg(k) == last.response[1].args[k]
Result == last.response[1].result

\* C25: encoding the sample a byte b decodes to gives b back, for every
\* byte 0..255; the two zero codes 0x7F and 0xFF, which both decode to 0,
\* may come back as either.
C25_CodecRoundTrip ==
    last.op = "linearToMulaw" =>
        \A b \in 0..255 :
            MULAW_TO_LINEAR[b] = Arg(1) =>
                \/ Result = b
                \/ b \in {127, 255} /\ Result \in {127, 255}

\* The index 0..7, counted from bit 7, of the highest set bit of
\* magnitude + 0x84.
Segment(magnitude) ==
    CHOOSE seg \in 0..7 :
        /\ 2^(seg + 7) <= magnitude + 132
        /\ magnitude + 132 < 2^(seg + 8)

\* C26: decoding the code of a signed 16-bit sample x gives a sample of the
\* sign of x within 8 * 2^seg of x, seg the segment of |x|; a sample of
\* magnitude above 32635 is encoded as the sample clipped to 32635 is.
C26_CodecTolerance ==
    last.op = "linearToMulaw" =>
        LET x       == Arg(1)
            abs     == IF x < 0 THEN -x ELSE x
            clipped == IF abs <= 32635 THEN x ELSE IF x < 0 THEN -32635 ELSE 32635
            y       == MULAW_TO_LINEAR[Result]
            error   == IF y < clipped THEN clipped - y ELSE y - clipped
        IN  /\ Result = linearToMulaw(clipped)
            /\ (x > 0 => y >= 0) /\ (x < 0 => y <= 0)
            /\ error <= 8 * 2^Segment(IF abs <= 32635 THEN abs ELSE 32635)

\* C27: resampleAudio with equal rates returns the buffer it was given,
\* itself and so unchanged, whatever the buffer (the empty one included)
\* and the rate.
C27_SameRateReturnsInput ==
    (last.op = "resampleAudio" /\ Arg(2) = Arg(3)) =>
        /\ Result.same
        /\ Result.length = Len(Arg(1))
C27_Witness ==
    /\ last.op = "resampleAudio"
    /\ Arg(1) = <<340, -340>> /\ Arg(2) = 16000 /\ Arg(3) = 16000
    /\ Result.same

\* C28: for different positive rates the output of resampleAudio has
\* floor(len * toRate / fromRate) samples.
C28_OutputLength ==
    (last.op = "resampleAudio" /\ Arg(2) # Arg(3)) =>
        Result.length = (Len(Arg(1)) * Arg(3)) \div Arg(2)

\* C29, as stated: resampling 160 samples from 8000 to 16000 yields 80
\* samples.
C29_Upsample160Yields80 ==
    (/\ last.op = "resampleAudio"
     /\ Len(Arg(1)) = 160 /\ Arg(2) = 8000 /\ Arg(3) = 16000) =>
        Result.length = 80

\* C29, amended: resampling 160 samples from 8000 to 16000 yields a new
\* buffer of 320 samples.
C29_Upsample160Yields320 ==
    (/\ last.op = "resampleAudio"
     /\ Len(Arg(1)) = 160 /\ Arg(2) = 8000 /\ Arg(3) = 16000) =>
        /\ ~Result.same
        /\ Result.length = 320
C29_Witness ==
    /\ last.op = "resampleAudio"
    /\ Arg(1) = Silence(160) /\ Arg(2) = 8000 /\ Arg(3) = 16000
    /\ Result.length = 320

\* C30: the RMS of a non-empty buffer of zeros is exactly 0 and the buffer
\* is no voice at any positive threshold; a payload of zero codes only
\* (0xFF, 0x7F) decodes to zeros only and is classified as silence.
C30_SilenceIsSilent ==
    /\ (/\ last.op \in {"detectVoiceActivity", "detectVoiceActivityAt"}
        /\ Arg(1) # <<>>
        /\ \A k \in 1..Len(Arg(1)) : Arg(1)[k] = 0) =>
           /\ ~Result.rms.nan
           /\ Result.rms.sumSq = 0
           /\ ~Result.voice
    /\ (/\ last.op = "classify"
        /\ \A k \in 1..Len(Arg(1)) : Arg(1)[k] \in {127, 255}) =>
           /\ Len(Result.audioSamples) = Len(Arg(1))
           /\ \A k \in 1..Len(Result.audioSamples) : Result.audioSamples[k] = 0
           /\ ~Result.hasVoice
C30_Witness ==
    /\ last.op = "classify"
    /\ Arg(1) = <<255, 127, 255>>
    /\ Result.audioSamples = <<0, 0, 0>>
    /\ ~Result.hasVoice

\* C31: calculateRMS of an empty buffer is 0 and not the result of 0 / 0, so
\* detectVoiceActivity of an empty buffer is false and an empty payload is
\* classified as silence.
C31_EmptyBufferRmsZero ==
    /\ (/\ last.op \in {"detectVoiceActivity", "detectVoiceActivityAt"}
        /\ Len(Arg(1)) = 0) =>
           /\ ~Result.rms.nan
           /\ Result.rms.sumSq = 0
           /\ ~Result.voice
    /\ (last.op = "classify" /\ Len(Arg(1)) = 0) =>
           /\ Result.audioSamples = <<>>
           /\ ~Result.hasVoice

\* C32: the audio_input sent for a forwarded telephony chunk of N companded
\* bytes has is_final false, sample_rate 16000 and a payload of 2N linear
\* 16-bit samples, that is 4N bytes.
C32_ForwardedChunkAt16000 ==
    last.op = "media" =>
        \A i \in 1..Len(last.toAi) :
            LET N == Len(base64ToUint8Array(MediaPayload(last.payload)))
            IN  /\ last.toAi[i].type = "audio_input"
                /\ last.toAi[i].is_final = FALSE
                /\ last.toAi[i].sample_rate = 16000
                /\ Len(base64ToUint8Array(last.toAi[i].audio)) = 4 * N
                /\ Len(BytesToInt16(base64ToUint8Array(last.toAi[i].audio))) = 2 * N

\* C33: the 'media' frame sent for an AI 'audio' message of M linear 16-bit
\* samples at 16000 Hz carries companded audio at 8000 Hz, that is
\* floor(M / 2) bytes.
C33_AgentAudioAt8000 ==
    (last.op = "aiMessage" /\ last.message.type = "audio") =>
        \A i \in 1..Len(last.toTwilio) :
            LET M == Len(BytesToInt16(base64ToUint8Array(
                         AudioPayload(last.message.audio))))
            IN  /\ last.toTwilio[i].event = "media"
                /\ Len(base64ToUint8Array(last.toTwilio[i].payload)) = M \div 2

\* The Session of the call of bridge b has been created and is gone from
\* the registry.
SessionClosed(b) == callSid[b] # "" /\ callSid[b] \notin DOMAIN activeConnections

C35_TranscriptAppendOnly ==
    [][\A c \in (DOMAIN activeConnections) \cap (DOMAIN activeConnections') :
          LET old == activeConnections[c].transcript
              new == activeConnections'[c].transcript
          IN  IF last'.op \in {"start", "create"} /\ last'.callSid = c THEN TRUE
              ELSE IF new = old THEN TRUE
              ELSE /\ last'.op = "aiMessage"
                   /\ last'.message.type = "transcript"
                   /\ last'.callSid = c
                   /\ Len(new) = Len(old) + 1
                   /\ SubSeq(new, 1, Len(old)) = old
                   /\ new[Len(new)].speaker = last'.message.speaker
                   /\ new[Len(new)].text = last'.message.text
                   /\ new[Len(new)].is_final = last'.message.is_final]_vars
C35_Witness ==
    /\ last.op = "aiMessage"
    /\ last.message.speaker = "agent"
    /\ IF last.callSid \in DOMAIN activeConnections
       THEN LET t == activeConnections[last.callSid].transcript
            IN  /\ Len(t) = 2
                /\ t[1].speaker = "user" /\ t[1].text = "Hi"
                /\ t[2].speaker = "agent" /\ t[2].text = "Hello"
       ELSE FALSE

\* C36: in the normal shutdown, a 'stop' that finds the Session of a bridge
\* whose 'start' has run to its end and then the 'close' event of the same
\* socket, teardown is not repeated: a conversation_end is sent by at most
\* one of the two and only on a socket not yet closed, the closeConnection
\* of the 'close' listener finds no Session and returns nothing, and the
\* registry is left as 'stop' left it.
C36_ShutdownNotRepeated ==
    [][(/\ last.op = "stop"
        /\ last.closed # {}
        /\ last'.op = "twilioClose"
        /\ last'.bridge = last.bridge
        /\ pc[last.bridge] = "idle") =>
           /\ last.toAi = <<>> \/ last'.toAi = <<>>
           /\ \A i \in 1..Len(last'.toAi) :
                  /\ last'.toAi[i].type = "conversation_end"
                  /\ aiWs[last'.toAi[i].ws].status = "OPEN"
           /\ last'.metadata = <<>>
           /\ last'.closed = {}
           /\ activeConnections' = activeConnections]_vars
C36_Witness ==
    /\ last.op = "twilioClose"
    /\ last.ws # 0
    /\ last.toAi = <<>>
    /\ last.metadata = <<>>
    /\ activeConnections = <<>>
    /\ IF last.ws \in DOMAIN aiWs
       THEN /\ aiWs[last.ws].sent = <<"conversation_initiation", "conversation_end">>
            /\ aiWs[last.ws].status = "CLOSING"
       ELSE FALSE


\* -------------------------------------------------- undecodable payloads
\* One call with audio on both legs that decodes and audio that does not:
\* telephony payloads that are base64 of voiced samples or no base64, AI
\* 'audio' messages that carry whole samples, an odd number of bytes or no
\* base64.
DecodeMedia == {"voice", "bad"}
DecodeFrames == {AiFrame("audio", "pcm", "", "", FALSE),
                 AiFrame("audio", "odd", "", "", FALSE),
                 AiFrame("audio", "bad", "", "", FALSE)}

NextDecode ==
    \/ \E b \in MainBridges, c \in MainCalls, s \in MainStreams :
          TwilioStart(b, c, s, TRUE)
    \/ \E b \in MainBridges : StartResume(b)
    \/ \E b \in MainBridges, p \in DecodeMedia : TwilioMedia(b, p)
    \/ \E b \in MainBridges : TwilioStop(b, "none")
    \/ \E ws \in AiHandles : AiOpen(ws)
    \/ \E ws \in AiHandles, m \in DecodeFrames : AiMessage(ws, m)

SpecDecode == Init /\ [][NextDecode]_vars

\* The listener that just ran was handed audio that cannot be decoded: a
\* telephony payload that is no base64 while the AI socket is connected, or
\* an AI 'audio' message that is no base64 or has an odd number of bytes
\* while the telephony socket is open.
UndecodableMedia(l, ai) ==
    /\ l.op = "media"
    /\ base64Throws(MediaPayload(l.payload))
    /\ isElevenLabsConnected(ai, l.ws)
UndecodableAudio(l, tw) ==
    /\ l.op = "aiMessage"
    /\ l.response # <<>>
    /\ l.response[1].type = "audio"
    /\ LET audio == AudioPayload(l.response[1].payload.audio)
       IN  IF audio.ok THEN Len(audio.bytes) % 2 = 1 ELSE TRUE
    /\ ReadyState(tw[l.bridge]) = "OPEN"

\* C37: audio that cannot be decoded is dropped inside the listener: the
\* exception is caught there, nothing is sent on either leg for it, the
\* registry with the call's Session and both sockets stay as they were, and
\* when the next event on the same leg is a valid chunk it is forwarded.
C37_UndecodableAudioDropped ==
    [][/\ (UndecodableMedia(last', aiWs) \/ UndecodableAudio(last', twilioWs)) =>
              /\ last'.raised
              /\ last'.toAi = <<>>
              /\ last'.toTwilio = <<>>
              /\ activeConnections' = activeConnections
              /\ aiWs' = aiWs
              /\ twilioWs' = twilioWs
       /\ (/\ UndecodableMedia(last, aiWs)
           /\ last'.op = "media"
           /\ last'.bridge = last.bridge
           /\ last'.payload = "voice") =>
              /\ Len(last'.toAi) = 1
              /\ last'.toAi[1].type = "audio_input"
              /\ last'.toAi[1].ws = last.ws
       /\ (/\ UndecodableAudio(last, twilioWs)
           /\ last'.op = "aiMessage"
           /\ last'.ws = last.ws
           /\ last'.message = AiFrame("audio", "pcm", "", "", FALSE)) =>
              /\ Len(last'.toTwilio) = 1
              /\ last'.toTwilio[1].event = "media"
              /\ last'.toTwilio[1].twilioWs = last.bridge]_vars

\* An undecodable telephony payload was dropped while the call's Session is
\* registered and its AI socket connected.
C37_Witness ==
    /\ UndecodableMedia(last, aiWs)
    /\ last.raised
    /\ last.toAi = <<>>
    /\ last.callSid \in DOMAIN activeConnections


\* C38: upsampling a non-empty buffer x from 8000 to 16000 gives 2 len(x)
\* samples with out[2k] = x[k]; out[2k+1] is an integer nearest to the average
\* of x[k] and x[k+1] for k < len(x) - 1; the last sample is x[len(x) - 1];
\* and every sample lies between the two source samples around its position
\* (the upper one clamped to the buffer end).  Indices count from 0.
C38_UpsampleByTwo ==
    (/\ last.op = "resampleAudio"
     /\ Arg(1) # <<>>
     /\ Arg(2) = 8000
     /\ Arg(3) = 16000) =>
        LET x   == Arg(1)
            out == Result.samples
            n   == Len(x)
            lo(k) == IF k + 1 < n - 1 THEN k + 1 ELSE n - 1
        IN  /\ ~Result.same
            /\ Result.exact
            /\ Len(out) = 2 * n
            /\ \A k \in 0..(n - 1) : out[2 * k + 1] = x[k + 1]
            /\ \A k \in 0..(n - 2) :
                   LET twice == 2 * out[2 * k + 2] - (x[k + 1] + x[k + 2])
                   IN  twice \in {-1, 0, 1}
            /\ out[2 * n] = x[n]
            /\ \A i \in 0..(2 * n - 1) :
                   LET a == x[(i \div 2) + 1]
                       b == x[lo(i \div 2) + 1]
                   IN  \/ a <= out[i + 1] /\ out[i + 1] <= b
                       \/ b <= out[i + 1] /\ out[i + 1] <= a

\* A buffer with averages that fall on halves, below and above zero, was
\* upsampled from 8000 to 16000.
C38_Witness ==
    /\ last.op = "resampleAudio"
    /\ Arg(1) = <<-20000, 19999, 19999, -1, 0, 1>>
    /\ Arg(2) = 8000
    /\ Arg(3) = 16000
    /\ Result.samples = <<-20000, 0, 19999, 19999, 19999, 9999, -1, 0, 0, 1, 1, 1>>

=============================================================================
